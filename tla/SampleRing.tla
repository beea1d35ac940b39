------------------------------ MODULE SampleRing ------------------------------
(***************************************************************************)
(* A sampling counter and its ring buffer: the kernel puts records in, and *)
(* wspy takes them out once, when the counted work has ended               *)
(* (perf_ring.c, ibs_sample.c, symbol_sample.c).  One instance is one file *)
(* descriptor: "op" and "fetch" are AMD IBS counters, open for all of      *)
(* processor 0, so the kernel goes on writing while wspy reads; "symbol"   *)
(* is the counter of one --target process, read while that process is      *)
(* stopped at its exit.                                                    *)
(*                                                                         *)
(* The ring is counted in words of 8 bytes, the size every record is a     *)
(* multiple of.  A word is a set of the bits (or the address) it carries.  *)
(* The timer's read_counters(list, 0) skips these counters and is no step  *)
(* here.  data_head and data_tail only grow; a place is one of them modulo *)
(* the size of the ring.                                                   *)
(***************************************************************************)
EXTENDS Integers, Sequences, SequencesExt, FiniteSets, FiniteSetsExt

CONSTANTS
  DataSize,     \* words in the data region, a power of two
  MaxPayload,   \* PERF_RING_MAX_PAYLOAD, in words
  MaxWords,     \* IBS_SAMPLE_MAX_WORDS
  RawWords,     \* the numbers of registers an IBS record may have on a CPU
  Shapes,       \* [kind -> the sets of bits a sample of that kind may carry]
  Capacity,     \* SYMBOL_SAMPLE_INITIAL_CAPACITY
  MaxEvents     \* bound: the kernel tries to write this many records

ASSUME RingAssumption ==
  /\ {DataSize, MaxPayload, MaxWords, Capacity, MaxEvents} \subseteq Nat \ {0}
  /\ MaxWords \in 5 .. MaxPayload - 1
  /\ RawWords \subseteq Nat \ 0..4

VARIABLES
  kind,         \* which counter this is
  nwords,       \* registers in each of its IBS records
  mapped,       \* mmap() of the ring succeeded
  ring, data_head, data_tail,     \* the shared pages
  missed,       \* records the kernel could not write since its last LOST record
  written,      \* every record the kernel wrote, with the place it starts at
  refused,      \* the number of records the kernel could not write
  stage,        \* "counting", "draining", "drained" or "printed"
  head, tail,   \* perf_ring_drain()'s local copies
  state,        \* struct ibs_sample_state or symbol_sample_state
  report        \* what the CSV row or the tree file says in the end

kernel == <<ring, data_head, missed, written, refused>>
ringVars == <<kind, nwords, mapped, kernel, data_tail, stage, head, tail, state, report>>

Kinds == {"op", "fetch", "symbol"}
Ibs == kind # "symbol"

\* What the registers can say; the data source is one of the four at the end:
\* index 0, DRAM, another named one, one past the table.
Sources == {"src_none", "src_dram", "src_cache", "src_beyond"}
Bits == {"brn_ret", "brn_misp", "dc_miss", "ic_miss", "l1tlb_miss",
         "l2tlb_miss", "rmt_node"} \union Sources
FetchBits == {"ic_miss", "l1tlb_miss", "l2tlb_miss"}

ASSUME ShapesAssumption ==
  /\ Shapes["op"] \subseteq SUBSET (Bits \ {"ic_miss"})
  /\ Shapes["fetch"] \subseteq SUBSET FetchBits

-----------------------------------------------------------------------------
(* Records: a word of header, then the payload.  The first word of an IBS  *)
(* payload holds raw_size and caps; here its size is the number of         *)
(* registers that follow.                                                  *)

Word(t, n, b) == [type |-> t, size |-> n, bits |-> b]
Record(t, payload) == <<Word(t, Len(payload) + 1, {})>> \o payload

\* The register that carries each bit: IbsOpData, IbsOpData2, IbsOpData3 are
\* the third to fifth of an op record, IbsFetchCtl the first of a fetch record.
Register(i) ==
  CASE kind = "op" /\ i = 3 -> {"brn_ret", "brn_misp"}
    [] kind = "op" /\ i = 4 -> {"rmt_node"} \union Sources
    [] kind = "op" /\ i = 5 -> {"dc_miss", "l1tlb_miss", "l2tlb_miss"}
    [] kind = "fetch" /\ i = 1 -> FetchBits
    [] OTHER -> {}

SampleOf(b) ==
  IF Ibs THEN Record("sample", <<Word("data", nwords, {})>> \o
                [i \in 1..nwords |-> Word("data", 0, b \intersect Register(i))])
         ELSE Record("sample", <<Word("data", 0, b)>>)
LostRecord(n) == Record("lost", <<Word("data", 0, {}), Word("data", n, {})>>)
Throttle == Record("throttle", [i \in 1..3 |-> Word("data", 0, {})])

-----------------------------------------------------------------------------
\* unrecorded is no field: it counts the samples a failed realloc() drops.
InitState ==
  [samples_seen |-> 0, samples_lost |-> 0, decode_skipped |-> 0, count |-> 0,
   tally |-> [b \in Bits |-> 0],
   addrs |-> <<>>, addrs_cap |-> Capacity, unrecorded |-> 0]

RingInit ==
  /\ kind \in Kinds
  /\ nwords \in IF Ibs THEN RawWords ELSE {0}
  /\ mapped \in BOOLEAN
  /\ ring = [i \in 0..DataSize - 1 |-> Word("data", 0, {})]
  /\ data_head = 0 /\ data_tail = 0
  /\ missed = 0 /\ refused = 0 /\ written = <<>>
  /\ stage = "counting" /\ head = 0 /\ tail = 0
  /\ state = InitState /\ report = <<>>

-----------------------------------------------------------------------------
(* The kernel.  A record that does not fit (one byte always stays free) is *)
(* only counted; the next one that does fit is preceded by a LOST record.  *)

Put(record, bits) ==
  LET all == (IF missed > 0 THEN LostRecord(missed) ELSE <<>>) \o record
      at  == data_head + Len(all) - Len(record)
  IN IF Len(all) < DataSize - (data_head - data_tail)
     THEN /\ ring' = [p \in DOMAIN ring |->
                        LET i == (p - data_head) % DataSize
                        IN IF i < Len(all) THEN all[i + 1] ELSE ring[p]]
          /\ data_head' = data_head + Len(all)
          /\ written' = Append(written,
                          [at |-> at, type |-> record[1].type, bits |-> bits])
          /\ missed' = 0
          /\ UNCHANGED refused
     ELSE /\ missed' = missed + 1
          /\ refused' = refused + 1
          /\ UNCHANGED <<ring, data_head, written>>

Event ==
  /\ mapped
  /\ Ibs \/ stage = "counting"
  /\ Len(written) + refused < MaxEvents
  /\ \/ \E b \in Shapes[kind] : Put(SampleOf(b), b)
     \/ Put(Throttle, {})
  /\ UNCHANGED <<kind, nwords, mapped, data_tail, stage, head, tail, state, report>>

-----------------------------------------------------------------------------
(* perf_ring_drain().                                                      *)

RingRead(offset, len) ==
  [i \in 1..len |-> ring[(offset + i - 1) % DataSize]]

Header == ring[tail % DataSize]
Complete == tail < head /\ head - tail >= 1 /\ Header.size >= 1

\* slip: data_tail is published as soon as the drain knows where the data ends
PublishEarly ==
  /\ stage = "counting"
  /\ IF mapped THEN /\ head' = data_head
                    /\ tail' = data_tail
                    /\ data_tail' = data_head
                    /\ stage' = "draining"
               ELSE stage' = "drained" /\ UNCHANGED <<head, tail, data_tail>>
  /\ UNCHANGED <<kind, nwords, mapped, kernel, state, report>>

\* read_counters(list, 1): the only caller that drains.
StartDrain ==
  /\ stage = "counting"
  /\ IF mapped THEN /\ head' = data_head
                    /\ tail' = data_tail
                    /\ stage' = "draining"
               ELSE stage' = "drained" /\ UNCHANGED <<head, tail>>
  /\ UNCHANGED <<kind, nwords, mapped, kernel, data_tail, state, report>>

(* The bits of one IBS record that are counted.                            *)
DecodeOp(words) ==
  LET At(i) == IF Len(words) >= i THEN words[i].bits ELSE {}
  IN (IF "brn_ret" \in At(3) THEN At(3) ELSE {}) \union At(4) \union At(5)
DecodeFetch(words) == words[1].bits
Decode(words) == IF kind = "op" THEN DecodeOp(words) ELSE DecodeFetch(words)

IbsRecord(payload) ==
  LET n == IF payload = <<>> THEN 0
           ELSE Min({payload[1].size, Len(payload) - 1, MaxWords})
      bits == Decode(SubSeq(payload, 2, n + 1))
  IN IF n > 0 THEN [state EXCEPT !.count = @ + 1,
                      !.tally = [b \in Bits |-> @[b] + IF b \in bits THEN 1 ELSE 0]]
              ELSE [state EXCEPT !.decode_skipped = @ + 1]

(* symbol_sample_record_addr(): realloc() may fail when the table is full. *)
RecordAddr(ip, memory) ==
  LET same == {i \in DOMAIN state.addrs : state.addrs[i].addr = ip}
      full == Len(state.addrs) = state.addrs_cap
  IN IF same # {}
     THEN [state EXCEPT !.addrs[Min(same)].count = @ + 1]
     ELSE IF full /\ ~memory
     THEN [state EXCEPT !.unrecorded = @ + 1]
     ELSE [state EXCEPT !.addrs = Append(@, [addr |-> ip, count |-> 1]),
                        !.addrs_cap = IF full THEN 2 * @ ELSE @]

SymbolRecord(payload, memory) ==
  IF payload = <<>> THEN [state EXCEPT !.decode_skipped = @ + 1]
  ELSE RecordAddr(payload[1].bits, memory)

TakeSample ==
  /\ stage = "draining" /\ Complete /\ Header.type = "sample"
  /\ LET payload == RingRead(tail + 1, Min({Header.size - 1, MaxPayload}))
         Seen(s) == [s EXCEPT !.samples_seen = @ + 1]
     IN IF Ibs THEN state' = Seen(IbsRecord(payload))
        ELSE \E memory \in BOOLEAN : state' = Seen(SymbolRecord(payload, memory))
  /\ tail' = tail + Header.size
  /\ UNCHANGED <<kind, nwords, mapped, kernel, data_tail, stage, head, report>>

TakeLost ==
  /\ stage = "draining" /\ Complete /\ Header.type = "lost"
  /\ state' = [state EXCEPT !.samples_lost = @ + RingRead(tail + 1, 2)[2].size]
  /\ tail' = tail + Header.size
  /\ UNCHANGED <<kind, nwords, mapped, kernel, data_tail, stage, head, report>>

SkipOther ==
  /\ stage = "draining" /\ Complete /\ Header.type \notin {"sample", "lost"}
  /\ tail' = tail + Header.size
  /\ UNCHANGED <<kind, nwords, mapped, kernel, data_tail, stage, head, state, report>>

Publish ==
  /\ stage = "draining" /\ ~Complete
  /\ data_tail' = tail
  /\ stage' = "drained"
  /\ UNCHANGED <<kind, nwords, mapped, kernel, head, tail, state, report>>

-----------------------------------------------------------------------------
(* The end: print_ibs_sample()'s rates (numerator, denominator), or the    *)
(* targetsample lines, after which close_counters() frees the histogram.   *)

IbsRow ==
  [b \in {"dc_miss", "ic_miss", "l1tlb_miss", "l2tlb_miss", "brn_misp",
          "src_dram", "rmt_node"} |->
     <<state.tally[b],
       IF b = "brn_misp" THEN state.tally["brn_ret"] ELSE state.count>>]

Report ==
  /\ stage = "drained"
  /\ report' = IF Ibs THEN <<IbsRow>> ELSE state.addrs
  /\ state' = IF Ibs THEN state ELSE [state EXCEPT !.addrs = <<>>]
  /\ mapped' = (mapped /\ Ibs)
  /\ stage' = "printed"
  /\ UNCHANGED <<kind, nwords, kernel, data_tail, head, tail>>

RingNext == \/ Event \/ StartDrain \/ TakeSample \/ TakeLost \/ SkipOther
            \/ Publish \/ Report
RingSpec == RingInit /\ [][RingNext]_ringVars

-----------------------------------------------------------------------------
\* The samples the kernel had written when the drain read data_head.
Taken == {i \in DOMAIN written : written[i].type = "sample" /\ written[i].at < head}
Having(P(_)) == Cardinality({i \in Taken : P(written[i].bits)})
Total(lines) ==
  LET upTo[i \in 0..Len(lines)] == IF i = 0 THEN 0 ELSE upTo[i - 1] + lines[i].count
  IN upTo[Len(lines)]

\* A drain accounts for every sample that was in the ring when it began, each
\* once and with its own payload, and for nothing that came later: whatever
\* the kernel writes meanwhile, whatever other records lie between, and when
\* records are cut to the scratch buffer (perf_ring_drain(), and the decoding
\* callbacks of ibs_sample.c and symbol_sample.c).  A mispredicted branch
\* counts only if it retired; an address has one line, and lines and dropped
\* samples add up; the losses reported are never more than the real ones.
DrainedExactly ==
  stage \in {"drained", "printed"} =>
    /\ state.samples_seen = Cardinality(Taken) /\ state.decode_skipped = 0
    /\ state.samples_lost + missed <= refused
    /\ Ibs => /\ state.count = Cardinality(Taken)
              /\ \A b \in Bits : state.tally[b] =
                   Having(LAMBDA s : b \in s /\ (b = "brn_misp" => "brn_ret" \in s))
    /\ ~Ibs => LET lines == IF stage = "printed" THEN report ELSE state.addrs
               IN /\ Total(lines) + state.unrecorded = Cardinality(Taken)
                  /\ \A i \in DOMAIN lines :
                       /\ lines[i].count <= Having(LAMBDA s : s = lines[i].addr)
                       /\ \A j \in DOMAIN lines :
                            lines[j].addr = lines[i].addr => i = j
=============================================================================
