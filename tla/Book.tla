-------------------------------- MODULE Book --------------------------------
(***************************************************************************)
(* reads.bend: the loop's side-state.  A Book records the run of missed    *)
(* searches, one read cursor per file, the file a refused edit asked for   *)
(* (want) and the same file once its read has landed (met), whether        *)
(* anything was read, the run of under-floor reroutes (low) and the run of *)
(* declined file picks (skips).                                            *)
(*                                                                         *)
(* Cursors count pages of read_page lines: next[f] is the page the next    *)
(* read of f serves, and 0 says that f has no mark.                        *)
(***************************************************************************)
EXTENDS Naturals

CONSTANTS Files,    \* paths a draft can name
          NoFile    \* None for a Maybe path

ASSUME NoFileIsNoFile == NoFile \notin Files

LowLimit      == 3
FloorReadsThree == 3
FloorReads    == 2
DeclinedLimit == 2
MissLimit     == 2

BookType == [misses : Nat, next : [Files -> Nat], done : SUBSET Files,
             want : Files \union {NoFile}, met : Files \union {NoFile},
             read_once : BOOLEAN, low : Nat, skips : Nat]

BookNew == [misses |-> 0, next |-> [f \in Files |-> 0], done |-> {},
            want |-> NoFile, met |-> NoFile,
            read_once |-> FALSE, low |-> 0, skips |-> 0]

-----------------------------------------------------------------------------
\* What the loop asks of the book

Marked(b, f) == b.next[f] # 0
RdNext(b, f) == IF Marked(b, f) THEN b.next[f] ELSE 1

BookStuck(b)   == b.misses >= MissLimit
BookSpent(b)   == b.low >= FloorReads
BookMet(b)     == b.met # NoFile
BookUnread(b)  == ~b.read_once
BookFlailingLate(b, rerouted) == rerouted /\ b.low >= LowLimit
BookFlailing(b, rerouted)     == rerouted /\ b.low + 1 >= LowLimit

\* A pending want is served without the pick, so it keeps reads live.
BookReadOut(b) == b.want = NoFile /\ b.skips >= DeclinedLimit

-----------------------------------------------------------------------------
\* What the handlers do to it

BookActed(b)    == [b EXCEPT !.misses = 0]
BookMissed(b)   == [b EXCEPT !.misses = @ + 1]
BookDeclined(b) == [b EXCEPT !.misses = 0, !.skips = @ + 1]
BookPhase0(b)   == [b EXCEPT !.misses = 0, !.read_once = TRUE]

BookWantKeepingMet(b, f) == [b EXCEPT !.misses = 0, !.want = f]
BookWant(b, f)  == [b EXCEPT !.misses = 0, !.want = f, !.met = NoFile]

BookTally(b, rerouted) == [b EXCEPT !.low = IF rerouted THEN @ + 1 ELSE 0]

\* A mark put for f discharges a want that names f into met.
RdPut(b, f, page, done) ==
  [b EXCEPT !.next[f] = page,
            !.done = IF done THEN @ \union {f} ELSE @ \ {f},
            !.want = IF @ = f THEN NoFile ELSE @,
            !.met  = IF b.want = f THEN f ELSE @]

BookServed(b, f, page, done) ==
  [RdPut(b, f, page, done) EXCEPT !.misses = 0, !.skips = 0, !.read_once = TRUE]

\* The anchor and the repair read their file in full, outside read_code: the
\* miss run ends, read_once and skips keep their values.
BookExhaust(b, f, page) == [RdPut(b, f, page, TRUE) EXCEPT !.misses = 0]
=============================================================================
