---------------------------- MODULE MCQosObjects ----------------------------
(* The combinations that the tests of the repository build. *)
EXTENDS QosObjects

MCScripts == {<<"lossless", "sched", "bindq">>, <<"sched", "bindp">>,
              <<"base", "schedbase">>}
=============================================================================
