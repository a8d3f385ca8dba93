-------------------------- MODULE MCSequenceEngine --------------------------
(* Small instances of SequenceEngine for TLC.                              *)
EXTENDS SequenceEngine

\* "{PREFIX}/{YYYY}/{MM}/{SEQ:4}", the template of a series without one.
DefaultTemplate == {"YYYY", "MM", "SEQ"}

\* Templates that show the period of their policy, and one with the counter only.
MixedConfigs ==
  {[tokens |-> {"YYYY", "SEQ"}, policy |-> "yearly"],
   [tokens |-> DefaultTemplate, policy |-> "monthly"],
   [tokens |-> {"YYYY", "MM", "DD", "SEQ"}, policy |-> "daily"],
   [tokens |-> {"SEQ"}, policy |-> "never"]}

DailyDefault == {[tokens |-> DefaultTemplate, policy |-> "daily"]}
=============================================================================
