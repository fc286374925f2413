------------------------------- MODULE MCServer -------------------------------
(* A small instance of Server.                                             *)
EXTENDS Server

CONSTANTS c, d    \* clients

OneChoice == [x \in Client |-> IF x = c THEN 1 ELSE 0]
MenusOfC  == [x \in Client |-> IF x = c THEN {"student", "staff"} ELSE {}]
===============================================================================
