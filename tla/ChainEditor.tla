------------------------------ MODULE ChainEditor ------------------------------
(***************************************************************************)
(* The rows of the upstream chain in the proxy view (ui/src/main.ts).       *)
(*                                                                          *)
(* A row's buttons carry the index the hop had when the page was drawn, and *)
(* act on the draft's chain as it is now.  They do not draw the page again, *)
(* so after DEL the page has more rows than the chain has hops.             *)
(*                                                                          *)
(* JavaScript arrays: reading past the end gives undefined; writing past it *)
(* leaves holes, which a spread turns into undefined, and filter removes.   *)
(* Left out: the rest of the draft (module ConfigDraft).                    *)
(***************************************************************************)
EXTENDS Filter, SequencesExt

CONSTANTS
    Hops,       \* what the user types into a row
    Undefined,
    Hole,
    MaxHops     \* bound on the length of the chain

ASSUME ChainAssumption ==
    /\ MaxHops \in Nat \ {0}
    /\ Undefined # Hole
    /\ {Undefined, Hole} \cap Hops = {}

VARIABLES
    chain,      \* upstream_proxy_chain of the draft
    rows,       \* indices of the rows on the page
    overrun     \* history: a row was used that has no hop any more

chainVars == <<chain, rows, overrun>>

ChainTypeOK ==
    /\ chain \in Seq(Hops \cup {Undefined, Hole})
    /\ Len(chain) <= MaxHops
    /\ rows \subseteq 1..MaxHops
    /\ overrun \in BOOLEAN

ChainInit ==
    /\ chain \in {<<>>} \cup {<<h>> : h \in Hops}
    /\ rows = DOMAIN chain
    /\ overrun = FALSE

-----------------------------------------------------------------------------
(* Arrays; the indices of the page start from 0, those of sequences from 1 *)

At(s, i) == IF i \in DOMAIN s THEN s[i] ELSE Undefined

\* [...s]
Spread(s) == [i \in DOMAIN s |-> IF s[i] = Hole THEN Undefined ELSE s[i]]

\* s[i] = v
Assign(s, i, v) ==
    [k \in 1..(IF i > Len(s) THEN i ELSE Len(s)) |->
        IF k = i THEN v ELSE IF k \in DOMAIN s THEN s[k] ELSE Hole]

\* [s[i], s[j]] = [s[j], s[i]]
Swap(s, i, j) == Assign(Assign(s, i, At(s, j)), j, At(s, i))

-----------------------------------------------------------------------------
(* The rows *)

Use(i) == overrun' = (overrun \/ i > Len(chain))

Input(i, h) ==
    /\ i \in rows
    /\ chain' = Assign(Spread(chain), i, h)
    /\ Use(i)
    /\ rows' = rows

\* The first row's UP and the last row's DOWN are disabled.
Up(i) ==
    /\ i \in rows \ {1}
    /\ chain' = Swap(Spread(chain), i - 1, i)
    /\ Use(i)
    /\ rows' = rows

\* Variant with a bug: the last hop can be moved down.
DownPastEnd(i) ==
    /\ i \in rows /\ \E j \in rows : j > i
    /\ i <= Len(chain)
    /\ Len(chain) < MaxHops
    /\ chain' = Swap(Spread(chain), i, i + 1)
    /\ UNCHANGED <<rows, overrun>>

\* Nothing happens if the hop is the last one by now.
Down(i) ==
    /\ i \in rows /\ \E j \in rows : j > i
    /\ i < Len(chain)
    /\ chain' = Swap(Spread(chain), i, i + 1)
    /\ UNCHANGED <<rows, overrun>>

Del(i) ==
    /\ i \in rows
    /\ chain' = Filter(chain, {k \in DOMAIN chain : k # i /\ chain[k] # Hole})
    /\ UNCHANGED <<rows, overrun>>

\* The new row's ADD
Add(h) ==
    /\ Len(chain) < MaxHops
    /\ chain' = Append(Spread(chain), h)
    /\ UNCHANGED <<rows, overrun>>

\* render() of the draft; holes have no row.  With undefined in the chain it
\* throws, and the page stays as it is.
DrawChain ==
    /\ Undefined \notin ToSet(chain)
    /\ rows' = {i \in DOMAIN chain : chain[i] # Hole}
    /\ UNCHANGED <<chain, overrun>>

\* RELOAD, and a save: the page shows what the core has stored.
LoadChain ==
    /\ chain' \in {<<>>} \cup {<<h>> : h \in Hops}
    /\ rows' = DOMAIN chain'
    /\ overrun' = FALSE

ChainNext ==
    \/ \E i \in 1..MaxHops :
          Up(i) \/ Down(i) \/ Del(i) \/ \E h \in Hops : Input(i, h)
    \/ \E h \in Hops : Add(h)
    \/ DrawChain \/ LoadChain

ChainSpec == ChainInit /\ [][ChainNext]_chainVars

-----------------------------------------------------------------------------
(* Properties *)

\* Unless the user has used a row whose hop was deleted, every element of the
\* chain is a hop he entered, also when rows and chain are out of step.  A stale
\* row may still move or delete another hop than the one it shows.  After a use
\* of a row without a hop the chain may hold undefined: the proxy view can no
\* longer be drawn, and a save from another view stores a hop of that name.
ChainOfHops == ~overrun => ToSet(chain) \subseteq Hops
=============================================================================
