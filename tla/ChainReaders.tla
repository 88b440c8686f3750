----------------------------- MODULE ChainReaders -----------------------------
(***************************************************************************)
(* The readers of the chain, while AppendBlock extends it.                 *)
(*                                                                         *)
(* A client asks for the height (controller.GetHeight, which reads the     *)
(* block table), and later, with the height it was told, for blocks        *)
(* (model.GetProposalBlock).  That handler slices them out of the chain in *)
(* memory, with bounds computed from the height in the request and, for an *)
(* order client, chosen by the height in the table.  No lock is taken, and *)
(* a commit appends to the chain before it inserts the row (module         *)
(* LeaderProblocks).                                                       *)
(***************************************************************************)
EXTENDS LeaderProblocks

CONSTANT Readers  \* clients that ask for blocks, one request at a time

VARIABLES
  reader,  \* where the request of a reader is
  told,    \* the height the reader was told last: Height in its requests
  length,  \* length of the slice its handler has read from Chain
  table,   \* height of the table when its handler chose the bounds
  served   \* ProposalBlocks in the answer

readers == <<reader, told, length, table, served>>

ReadersInit ==
  /\ Init
  /\ reader = [r \in Readers |-> "idle"]
  /\ told   = [r \in Readers |-> 0]
  /\ length = [r \in Readers |-> 0]
  /\ table  = [r \in Readers |-> 0]
  /\ served = [r \in Readers |-> <<>>]

\* GET /shard/height.  Any number of blocks may follow before the next request.
AskHeight(r) ==
  /\ reader[r] # "reading"
  /\ told'   = [told EXCEPT ![r] = GetHeight]
  /\ reader' = [reader EXCEPT ![r] = "told"]
  /\ served' = [served EXCEPT ![r] = <<>>]
  /\ UNCHANGED <<vars, length, table>>

\* chain[from:to] of a slice of n blocks.  Blocks that are appended later do not
\* change those in it.
Legal(from, to, n) == 0 <= from /\ from <= to /\ to <= n

Slice(from, to) == [i \in 1..(to - from) |-> chain[from + i]]

\* An illegal slice expression panics, and gin answers 500.
Answer(r, kind, from, to, n) ==
  IF Legal(from, to, n)
  THEN /\ served' = [served EXCEPT ![r] = Slice(from, to)]
       /\ reader' = [reader EXCEPT ![r] = kind]
  ELSE /\ reader' = [reader EXCEPT ![r] = "panicked"]
       /\ UNCHANGED served

-----------------------------------------------------------------------------
(* GetProposalBlock.                                                       *)

\* Mutant: slices are counted from 1.
CountedFromOne(h) == h

From(h) == h - 1

\* Lines 429-437, for an execution client: it reads nothing but the chain.
ServeBlock(r) ==
  LET h == told[r] IN
  /\ reader[r] = "told"
  /\ IF h < 1 THEN Answer(r, "block", 0, 0, 0)
              ELSE Answer(r, "block", From(h), From(h) + 1, Len(chain))
  /\ table' = [table EXCEPT ![r] = GetHeight]
  /\ UNCHANGED <<vars, told, length>>

\* Mutant: the slice reaches beyond the blocks that have been appended.
CapacityOfChain == Len(chain) + 1

LengthOfChain == Len(chain)

\* Line 410, for an order client: the slice's pointer, length and capacity are
\* copied without a lock while line 476 may assign them.  The copy is taken to be
\* the slice before or the one after the assignment.
ReadChain(r) ==
  /\ reader[r] = "told"
  /\ length' = [length EXCEPT ![r] = LengthOfChain]
  /\ reader' = [reader EXCEPT ![r] = "reading"]
  /\ UNCHANGED <<vars, told, table, served>>

\* Mutant: the last two blocks are asked for as soon as there are two.
TwoOrMore(n) == n >= 2

ThreeOrMore(n) == n >= 3

\* Mutant: one block less.
FromLastTwo(h) == h - 2

FromLastThree(h) == h - 3

\* Lines 413-427, for an order client: the slice begins at a bound from the request.
ServeChain(r) ==
  LET n  == GetHeight
      to == length[r]
  IN
  /\ reader[r] = "reading"
  /\ CASE n = 0          -> Answer(r, "suffix", 0, 0, to)
       [] ThreeOrMore(n) -> Answer(r, "suffix", FromLastThree(told[r]), to, to)
       [] OTHER          -> Answer(r, "suffix", 0, to, to)
  /\ table' = [table EXCEPT ![r] = n]
  /\ UNCHANGED <<vars, told, length>>

-----------------------------------------------------------------------------
Read(r) == AskHeight(r) \/ ServeBlock(r) \/ ReadChain(r) \/ ServeChain(r)

ReadersNext ==
  \/ Next /\ UNCHANGED readers
  \/ \E r \in Readers : Read(r)

ReadersSpec == ReadersInit /\ [][ReadersNext]_<<vars, readers>>

-----------------------------------------------------------------------------
ReadersTypeOK ==
  /\ reader \in [Readers -> {"idle", "told", "reading", "block", "suffix", "panicked"}]
  /\ told   \in [Readers -> 0..MaxHeight]
  /\ length \in [Readers -> 0..Len(chain)]
  /\ table  \in [Readers -> 0..MaxHeight]
  /\ served \in [Readers -> Seq(BlockRecords)]

(* While no insertion has failed, an execution client is given the block of the height
   it was told, however old, and that block is in the table: the chain in memory
   is ahead of the table, never behind it, and its index is the height. *)
BlockIsTheOneAskedFor ==
  ~RowLost =>
    \A r \in Readers :
      reader[r] = "block" /\ told[r] >= 1 =>
        \E b \in blocks : b.height = told[r] /\ served[r] = <<b>>

Consecutive(list) == \A i \in 1..(Len(list) - 1) : list[i + 1].height = list[i].height + 1

(* While no insertion has failed, an order client is given consecutive blocks from two
   before the height it was told (all, when the table had fewer than three) up to
   at least that height, and at most one that the table did not have: the slice
   read before the height of the table is neither too old nor too new for it. *)
SuffixReachesTable ==
  ~RowLost =>
    \A r \in Readers :
      reader[r] = "suffix" /\ served[r] # <<>> =>
        LET first == served[r][1].height
            last  == served[r][Len(served[r])].height
        IN
        /\ Consecutive(served[r])
        /\ first = IF table[r] >= 3 THEN told[r] - 2 ELSE 1
        /\ told[r] <= last /\ last <= table[r] + 1

(* The slice expressions panic only for an order client that still has a height
   below three when the table has grown to three: never for the height the table
   has at the moment, and never for an execution client. *)
PanicsOnlyWhenStale ==
  \A r \in Readers : reader[r] = "panicked" => told[r] < 3 /\ 3 <= table[r]

-----------------------------------------------------------------------------
(* The inductive invariant behind them.                                    *)

\* A reader was told a height the table had ...
ToldInv == \A r \in Readers : told[r] <= GetHeight

\* ... and finds at least that many blocks.
ReadingInv == \A r \in Readers : reader[r] = "reading" => told[r] <= length[r]

ReadersInv ==
  /\ IndInv
  /\ ReadersTypeOK /\ ToldInv /\ ReadingInv
  /\ BlockIsTheOneAskedFor /\ SuffixReachesTable /\ PanicsOnlyWhenStale
=============================================================================
