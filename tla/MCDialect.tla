------------------------------ MODULE MCDialect ------------------------------
(* Instance of Dialect for TLC.                                             *)
EXTENDS Dialect, TLC

\* Backends that refuse everything, or what their configuration pins.
MCSetups ==
    { [rejects |-> Dimensions,                     pins |-> {}],
      [rejects |-> {"token_param", "temperature"}, pins |-> {"token_param"}],
      [rejects |-> Dimensions,                     pins |-> {"token_param"}] }

\* Calls and objects are interchangeable.
Symmetry == Permutations(Calls) \cup Permutations(Objects)
=============================================================================
