-------------------------- MODULE MCWdcOtaJournal --------------------------
(***************************************************************************)
(* The journal with two contents and generations 0..MaxGen: enough for     *)
(* each sector to be rewritten more than once, with a failed write, a      *)
(* power loss or an unchanged value before, between and after.             *)
(***************************************************************************)
EXTENDS WdcOtaJournal

CONSTANTS d1, d2, MaxGen

MCMetadata == [gen : 0..MaxGen, data : {d1, d2}]
MCMetadataInit == [gen |-> 0, data |-> d1]
=============================================================================
