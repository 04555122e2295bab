---------------------------- MODULE MCCoinbaseTx ----------------------------
(* Jobs of the interesting shapes: short and long tags, so that the extranonce
   is in the input or in an output of its own; a template with plenty of space
   and templates that leave room for no, one or two payouts by weight or by
   size; and every list of at most four outputs of a few kinds.            *)
EXTENDS CoinbaseTx, SequencesExt

Plain ==
  [value |-> 1000, reward |-> 900, pool |-> 22, primary |-> 13,
   pooltag |-> 13, secondary |-> 10, prime |-> FALSE, headline |-> 0,
   header |-> 0, free |-> [weight |-> 400000, size |-> 100000],
   new |-> FALSE, need |-> TRUE, chirp |-> FALSE, supplier |-> 0]

LongTags == [Plain EXCEPT !.primary = 40, !.pooltag = 42, !.secondary = 44]

Free(weight, size) == [weight |-> weight, size |-> size]

(* With a pool the input takes 38 or 100 bytes and the fixed part of a payout
   transaction 179, 189 or 251: the templates leave exactly that, or that and
   exactly one or two outputs of 31 or 43 bytes.                            *)
Tight ==
  {[Plain EXCEPT !.free = f] :
     f \in {Free(w, 100000) : w \in {1132, 1216, 1256, 1264, 1388}}
             \cup {Free(400000, s) : s \in {331, 374}}}
  \cup
  {[Plain EXCEPT !.header = 2, !.free = f] :
     f \in {Free(1388, 100000), Free(400000, 415), Free(400000, 458)}}
  \cup
  {[LongTags EXCEPT !.free = f] :
     f \in {Free(w, 100000) : w \in {1380, 1504, 1676}}}

Loose ==
  {Plain, LongTags, [Plain EXCEPT !.need = FALSE, !.new = TRUE],
   [LongTags EXCEPT !.need = FALSE, !.new = TRUE, !.header = 2],
   [Plain EXCEPT !.header = 2, !.chirp = TRUE, !.prime = TRUE],
   [Plain EXCEPT !.header = 2, !.headline = 35, !.supplier = 25],
   [Plain EXCEPT !.header = 2, !.headline = 70],
   [Plain EXCEPT !.header = 2, !.headline = 100, !.primary = 0, !.pooltag = 0,
                 !.secondary = 0]}

MCJobs == Tight \cup Loose

Entries ==
  [len : {22, 34}, value : {300, 700}]
    \cup {[len |-> 40, value |-> 0], [len |-> 1, value |-> 100]}

MCResponses == SeqOf(Entries, 4)

=============================================================================
