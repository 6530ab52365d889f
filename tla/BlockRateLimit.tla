--------------------------- MODULE BlockRateLimit ---------------------------
(***************************************************************************)
(* The rate limiter a node's CheckTx puts orders and cancellations through *)
(* (x/clob/rate_limit): per key, one counter per limit over its last n     *)
(* blocks, kept up to date by subtracting, after each block, what was      *)
(* counted n blocks ago.  Which keys have something to subtract is kept in *)
(* a circular array of dirty sets.  The limiter is in memory; its          *)
(* configuration is in state.                                              *)
(***************************************************************************)
EXTENDS Integers, Sequences, Sums

CONSTANTS
  Keys,         \* accounts
  Configs,      \* configurations as NewMultiBlockRateLimiter sorts them: sequences,
                \* not empty, of [num, limit], none of them zero, with num ascending
  Weights,      \* what a message counts for: 1, or 2 for a batch of cancels
  MaxPerBlock,  \* bound: what a key asks for between two blocks
  MaxHeight     \* bound: height of the last block

\* What the constants stand for: the validated configurations of state, sorted.
WellFormed ==
  /\ \A c \in Configs :
       /\ c \in Seq([num : Nat \ {0}, limit : Nat \ {0}]) /\ c # <<>>
       /\ \A i, j \in DOMAIN c : i <= j => c[i].num <= c[j].num
  /\ Weights \subseteq Nat \ {0}
  /\ MaxHeight \in Nat \ {0}

VARIABLES
  height,        \* height of the last committed block, which CheckTx sees
  stored,        \* the configuration in state
  config,        \* the configuration of the limiter
  blockCounts,   \* key |-> height |-> count (perKeyBlockCounts)
  limitCounts,   \* key |-> one count per limit (perKeyRateLimitCounts)
  dirty,         \* keys counted at a height, at offset height % maxNumBlocks
  panicked,      \* PruneRateLimits missed the counts of a dirty key
  asked,         \* history: key |-> height |-> count, since the limiter is new
  granted        \* history: the same, of the messages let through

limiter == <<config, blockCounts, limitCounts, dirty>>
history == <<asked, granted>>
vars == <<height, stored, limiter, panicked, history>>

Heights == 0 .. MaxHeight
MaxNumBlocks(c) == c[Len(c)].num
Zero == [k \in Keys |-> [h \in Heights |-> 0]]
None == [k \in {} |-> 0]

\* NewMultiBlockRateLimiter.
NewLimiter(c) ==
  /\ config' = c
  /\ blockCounts' = None
  /\ limitCounts' = None
  /\ dirty' = [o \in 0 .. MaxNumBlocks(c) - 1 |-> {}]
  /\ asked' = Zero
  /\ granted' = Zero

\* A node starts at some height with the configuration in state.
Init ==
  /\ height \in {0, 1}
  /\ stored \in Configs
  /\ config = stored
  /\ blockCounts = None
  /\ limitCounts = None
  /\ dirty = [o \in 0 .. MaxNumBlocks(config) - 1 |-> {}]
  /\ panicked = FALSE
  /\ asked = Zero
  /\ granted = Zero

-----------------------------------------------------------------------------
(* CheckTx.                                                                *)

CountsOf(k) == IF k \in DOMAIN blockCounts THEN blockCounts[k] ELSE None
CountAt(k, h) == IF h \in DOMAIN CountsOf(k) THEN CountsOf(k)[h] ELSE 0
LimitsOf(k) ==
  IF k \in DOMAIN limitCounts THEN limitCounts[k] ELSE [i \in DOMAIN config |-> 0]

WithinLimits(counts) == \A i \in DOMAIN config : counts[i] <= config[i].limit

Counted(k, n) == [i \in DOMAIN config |-> LimitsOf(k)[i] + n]

\* RateLimitIncrBy: a message is counted even if it is refused.
RateLimitIncrBy(k, n) ==
  /\ asked[k][height] + n <= MaxPerBlock
  /\ \E counts \in {Counted(k, n)} :
       /\ limitCounts' = [j \in DOMAIN limitCounts \cup {k} |->
                            IF j = k THEN counts ELSE limitCounts[j]]
       /\ granted' = [granted EXCEPT ![k][height] =
                        IF WithinLimits(counts) THEN @ + n ELSE @]
  /\ dirty' = [dirty EXCEPT ![height % MaxNumBlocks(config)] = @ \cup {k}]
  /\ blockCounts' = [j \in DOMAIN blockCounts \cup {k} |->
       IF j # k THEN blockCounts[j]
       ELSE [h \in DOMAIN CountsOf(k) \cup {height} |->
               IF h = height THEN CountAt(k, h) + n ELSE CountAt(k, h)]]
  /\ asked' = [asked EXCEPT ![k][height] = @ + n]
  /\ UNCHANGED <<height, stored, config, panicked>>

-----------------------------------------------------------------------------
(* PrepareCheckState after block h: PruneRateLimits.                       *)

\* Mutant: limits whose window is as long as the chain are skipped.
LongerThanChain(h, i) == h > config[i].num

\* The limits whose window has an oldest block; the others are skipped.
Reaches(h, i) == h >= config[i].num

\* Keys to subtract from limit i.
DirtyFor(h, i) ==
  IF Reaches(h, i) THEN dirty[(h - config[i].num) % MaxNumBlocks(config)] ELSE {}

Subtracted(h, k) ==
  [i \in DOMAIN config |->
     IF k \in DirtyFor(h, i) THEN LimitsOf(k)[i] - CountAt(k, h - config[i].num)
                             ELSE LimitsOf(k)[i]]

\* The counts of the block that leaves the longest window go.
WithoutOldest(h, k) ==
  IF k \notin dirty[h % MaxNumBlocks(config)] THEN blockCounts[k]
  ELSE [g \in DOMAIN blockCounts[k] \ {h - MaxNumBlocks(config)} |-> blockCounts[k][g]]

\* Keys none of whose blocks is left.
Emptied(h) ==
  {k \in dirty[h % MaxNumBlocks(config)] : k \in DOMAIN blockCounts
                                           /\ DOMAIN WithoutOldest(h, k) = {}}

\* The panics of PruneRateLimits: a dirty key without counts.
Missing(h) ==
  LET touched == dirty[h % MaxNumBlocks(config)]
                   \cup UNION {DirtyFor(h, i) : i \in DOMAIN config}
  IN  touched \ (DOMAIN blockCounts \cap DOMAIN limitCounts)

\* A block is committed; CheckTx sees its height from then on.
PrepareCheckState ==
  /\ height < MaxHeight
  /\ height' = height + 1
  /\ IF Missing(height + 1) # {}
       THEN panicked' = TRUE /\ UNCHANGED <<blockCounts, limitCounts, dirty>>
       ELSE \E gone \in {Emptied(height + 1)} :
              /\ limitCounts' = [k \in DOMAIN limitCounts \ gone |-> Subtracted(height + 1, k)]
              /\ blockCounts' = [k \in DOMAIN blockCounts \ gone |-> WithoutOldest(height + 1, k)]
              /\ dirty' = [dirty EXCEPT ![(height + 1) % MaxNumBlocks(config)] = {}]
              /\ UNCHANGED panicked
  /\ UNCHANGED <<stored, config, history>>

-----------------------------------------------------------------------------
(* Configuration.                                                          *)

\* InitializeBlockRateLimit, called while a block is delivered.  The write to
\* state is dropped if the transaction or proposal fails afterwards.
InitializeBlockRateLimit(c, kept) ==
  /\ NewLimiter(c)
  /\ stored' = IF kept THEN c ELSE stored
  /\ UNCHANGED <<height, panicked>>

\* InitalizeBlockRateLimitFromStateIfExists.
Restart ==
  /\ NewLimiter(stored)
  /\ UNCHANGED <<height, stored, panicked>>

Next ==
  \/ \E k \in Keys, n \in Weights : RateLimitIncrBy(k, n)
  \/ PrepareCheckState
  \/ \E c \in Configs, kept \in BOOLEAN : InitializeBlockRateLimit(c, kept)
  \/ Restart

Spec == Init /\ [][Next]_vars

-----------------------------------------------------------------------------
(* Properties.                                                             *)

\* The blocks a limit over num blocks looks at.
Window(num) == {h \in Heights : h > height - num /\ h <= height}

\* A counter is the sum of what was asked for within its window, however many
\* keys shared a dirty set, whichever limits were skipped while the chain was
\* short, and although nothing is summed up again; so no window lets more
\* through than its limit, and PruneRateLimits, which runs on every node after
\* every block, never misses the counts of a dirty key, where it panics.
WindowExact ==
  /\ \A k \in Keys : \A i \in DOMAIN config :
       /\ LimitsOf(k)[i] = SumOf(asked[k], Window(config[i].num))
       /\ SumOf(granted[k], Window(config[i].num)) <= config[i].limit
  /\ ~panicked
=============================================================================
