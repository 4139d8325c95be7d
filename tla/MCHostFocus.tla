------------------------------ MODULE MCHostFocus ------------------------------
EXTENDS HostFocus, TLC

CONSTANTS a, b, other, edit, edit2, page, transient, none

FocusSymmetry == Permutations({a, b}) \cup Permutations({edit, edit2})
================================================================================
