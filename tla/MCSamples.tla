------------------------------ MODULE MCSamples ------------------------------
(***************************************************************************)
(* Instances of the two ways of sampling for TLC.  A behaviour is of one   *)
(* of them, which `way' names: a counter that is read on every tick, or a  *)
(* ring that two op records, or three fetch records, fill, with IBS        *)
(* records short enough for the scratch buffer and longer than it.         *)
(***************************************************************************)
EXTENDS Sampling, SampleRing

VARIABLE way

RingShapes ==
  [k \in Kinds |->
     CASE k = "op" -> {{"brn_ret", "brn_misp", "src_dram"},
                       {"brn_misp", "dc_miss", "l2tlb_miss", "rmt_node", "src_cache"},
                       {"brn_ret", "dc_miss", "l1tlb_miss", "src_beyond"}}
       [] k = "fetch" -> {{}, {"ic_miss", "l2tlb_miss"}, {"l1tlb_miss"}}
       [] OTHER -> {{"a"}, {"b"}, {"c"}}]

SamplesInit ==
  /\ way \in {"interval", "ring"}
  /\ Init /\ (way = "ring" => interval = 0)
  /\ RingInit /\ (way = "interval" => kind = "symbol" /\ mapped)

Printed == stage = "printed" /\ UNCHANGED ringVars

SamplesNext ==
  /\ UNCHANGED way
  /\ \/ way = "interval" /\ Next /\ UNCHANGED ringVars
     \/ way = "ring" /\ (RingNext \/ Printed) /\ UNCHANGED vars

SamplesSpec == SamplesInit /\ [][SamplesNext]_<<way, vars, ringVars>>
=============================================================================
