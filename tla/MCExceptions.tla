---------------------------- MODULE MCExceptions ----------------------------
(* A function of the library, and a program that calls it under a CATCH for *)
(* all exceptions or for one kind only; the calls nest in any order.        *)
EXTENDS Exceptions

CONSTANTS AddConstraints, Program, Timer, overflow, timeout

MCMask == [f \in Functions |->
             IF f = Timer THEN {timeout} ELSE {overflow, timeout}]
============================================================================
