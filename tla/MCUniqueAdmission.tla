--------------------------- MODULE MCUniqueAdmission ---------------------------
(***************************************************************************)
(* Instances of UniqueAdmission for TLC.                                   *)
(***************************************************************************)
EXTENDS UniqueAdmission

\* Two objects of one namespace and one of another.
MCId == {<<"default", "one">>, <<"default", "two">>, <<"staging", "one">>}

\* No key, one, and a superset of it: equal, overlapping and empty bodies.
MCBodies == {{}, {"a"}, {"a", "b"}}

\* One client needs an object without keys, one an object with a contended key.
MCWanted == {[id |-> <<"default", "one">>, body |-> {}],
             [id |-> <<"staging", "one">>, body |-> {"a"}]}
NoneWanted == {}
================================================================================
