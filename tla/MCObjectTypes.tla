---------------------------- MODULE MCObjectTypes ----------------------------
(* Instances of ObjectTypes for TLC: class a has two variables, class b a   *)
(* folder and a variable, class d a folder that shall be mandatory.        *)
EXTENDS ObjectTypes

CONSTANTS a, b, d, current, average

Variable(name, marked) ==
    [name |-> name, folder |-> FALSE, mandatory |-> marked]
Folder(name, marked) == [name |-> name, folder |-> TRUE, mandatory |-> marked]

Classes ==
    [t \in Threads |->
        CASE t = a -> <<Variable(current, TRUE), Variable(average, FALSE)>>
          [] t = b -> <<Folder(average, FALSE), Variable(current, TRUE)>>
          [] t = d -> <<Folder(average, TRUE)>>]
=============================================================================
