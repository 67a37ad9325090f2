---- MODULE MCLifecycle ----
EXTENDS Lifecycle
====
