---- MODULE MCCpuWindow ----
EXTENDS CpuWindow
====
