----------------------------- MODULE MCControls ------------------------------
(* Controls with two plugins, one of them with an atom port before a control. *)
EXTENDS Controls

CONSTANTS plain, model, missing

TwoKinds == {plain, model}

SomePorts ==
  [kind \in TwoKinds |->
     IF kind = plain THEN <<"audio", "controlIn", "controlOut", "controlIn">>
                     ELSE <<"atom", "audio", "controlIn">>]

\* One plugin, one with a value too few after a plugin that is not installed, and
\* one twice.
SomePresets ==
  {<<[name |-> plain, values |-> <<2, 0>>]>>,
   <<[name |-> missing, values |-> <<0>>], [name |-> plain, values |-> <<0>>]>>,
   <<[name |-> model, values |-> <<0, 2>>], [name |-> model, values |-> <<2>>]>>}
===============================================================================
