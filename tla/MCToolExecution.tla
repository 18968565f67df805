-------------------------- MODULE MCToolExecution --------------------------
(* Instances of ToolExecution for TLC. *)
EXTENDS ToolExecution, TLC

CONSTANTS lib, test

TwoPaths == {lib, test}

Text == lib :> <<"a", "b">> @@ test :> <<"a">>

Written == <<"c">>

(* Two edits of one file, of different lengths, and one of the other. *)
ThreeEdits ==
    {[path |-> lib, old |-> <<"a">>, new |-> <<"b", "b">>],
     [path |-> lib, old |-> <<"b">>, new |-> <<"a">>],
     [path |-> test, old |-> <<"a">>, new |-> <<"b">>]}

(* An answered prompt, a protected test, a request that is no order to     *)
(* change anything, a delegate, and nobody to ask.                         *)
Permit(readOnly, mutation, protected, approval) ==
    [readOnly |-> readOnly, mutation |-> mutation, protected |-> protected,
     approval |-> approval]

FiveTerms ==
    {Permit(FALSE, TRUE, {}, "ask"), Permit(FALSE, TRUE, {test}, "auto"),
     Permit(FALSE, FALSE, {}, "ask"), Permit(TRUE, TRUE, {}, "auto"),
     Permit(FALSE, TRUE, {}, "never")}
=============================================================================
