----------------------------- MODULE MCMultipass -----------------------------
(* An instance of Multipass for TLC: eight of the groups, with the counters of  *)
(* the AMD tables.  Raw groups open their own counters; dcache and icache share *)
(* one cache group and its instructions counter.                                *)
EXTENDS Multipass, FiniteSetsExt

TableOrder == <<"ipc", "topdown", "topdown2", "dcache", "icache", "opcache", "software", "float">>
AllGroups == {TableOrder[j] : j \in DOMAIN TableOrder}

RawCounters == [ipc |-> 3, topdown |-> 6, topdown2 |-> 12, opcache |-> 3, float |-> 6]
CacheEvents == [dcache |-> {"instructions", "l1d-read", "l1d-read-miss"},
                icache |-> {"instructions", "l1i-read", "l1i-read-miss"}]

TableNeed ==
  [S \in SUBSET (AllGroups \ {"software"}) |->
     MapThenSumSet(LAMBDA g : RawCounters[g], S \cap DOMAIN RawCounters)
       + Cardinality(UNION {CacheEvents[g] : g \in S \cap DOMAIN CacheEvents})]
=============================================================================
