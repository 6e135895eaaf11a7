---------------------- MODULE VMCIWellKnownMap_proofs ----------------------
(***************************************************************************)
(* Proofs about the mappings of well-known datagram ids, for any number of *)
(* contexts, ids and mappings and any finite number of threads.            *)
(*                                                                         *)
(* An entry of the table is unlinked by its handle.  That this unlinks the *)
(* entry which was meant depends on there being no second one with that    *)
(* handle in memory (HandlesDiffer), which a request for a mapping that is *)
(* being removed would make; Apart excludes it.  With it counts are right  *)
(* and no context leaves a mapping behind, removals may overlap as they    *)
(* like and ids may be used again while a context that had them is freed.  *)
(***************************************************************************)
EXTENDS VMCIWellKnownMap, FiniteSetTheorems, TLAPS

Apart == "request" \notin Overlaps

-----------------------------------------------------------------------------
(* The inductive invariant                                                 *)

\* Calls that have a reference to an entry, and calls that have none.
Holding == {"check", "remove", "remove_well_known", "release"}
Unbound == {"idle", "drain", "get"}

Link(e) == IF e \in linked THEN 1 ELSE 0

\* An entry is counted, and somebody who keeps it in memory can be named.
Counted(e) ==
  /\ entry[e].allocated <=> (e \in linked \/ Holders(e) # {})
  /\ entry[e].refCount = Cardinality(Holders(e)) + Link(e)
  /\ entry[e].allocated => entry[e].handle \in Handle

\* No two entries in memory have one handle.
HandlesDiffer ==
  \A d, e \in Entry :
    entry[d].allocated /\ entry[e].allocated /\ entry[d].handle = entry[e].handle => d = e

\* A call that holds an entry works on the well-known id of that entry; after
\* it has unlinked the entry that is off the table.
Bound(r) ==
  /\ r.pc \in Unbound => r.entry = NoEntry
  /\ r.pc \in Holding => r.entry \in Entry /\ r.wk = entry[r.entry].handle
  /\ r.pc = "remove_well_known" => r.entry \notin linked
  /\ r.pc \in {"add_well_known", "get"} => r.wk \in Handle

\* A call is made for a context that is there; who drains it works alone.
Serves(r) ==
  /\ r.pc = "idle" => r = Idle
  /\ r.pc # "idle" =>
       r.ctx \in Contexts /\ context[r.ctx].state \in {"open", "closing"}
  /\ r.pc = "add_well_known" => context[r.ctx].state = "open"
  /\ r.pc = "drain" => context[r.ctx].state = "closing"

DrainsAlone ==
  \A t, u \in Threads :
    call[t].ctx = call[u].ctx /\ call[t].ctx \in Contexts
      /\ context[call[t].ctx].state = "closing" => t = u

\* A context on the list is the only one there with its id.
IdsDiffer ==
  \A c, d \in Contexts :
    context[c].state = "open" /\ context[d].state = "open" /\ context[c].cid = context[d].cid
      => c = d

Table == /\ \A e \in Entry : Counted(e)
         /\ \A t \in Threads : Bound(call[t])
         /\ HandlesDiffer /\ ~mistaken
Served == (\A t \in Threads : Serves(call[t])) /\ DrainsAlone /\ IdsDiffer

Inv == TypeOK /\ Table /\ Served

-----------------------------------------------------------------------------
(* A step of a thread, and what it changes for entries and for contexts.   *)

Moves(t, r) == r \in Call /\ call' = [call EXCEPT ![t] = r]

\* Idle is a call, and a step that only goes on keeps the rest of it.
LEMMA IdleType == Idle \in Call /\ Idle.pc = "idle" /\ Idle.ctx = NoContext
                  /\ Idle.wk = NoHandle /\ Idle.entry = NoEntry
  BY DEF Idle, Call

LEMMA MovesType ==
  ASSUME TypeOK, NEW t \in Threads, NEW r, Moves(t, r)
  PROVE  /\ call' \in [Threads -> Call] /\ call'[t] = r
         /\ \A u \in Threads \ {t} : call'[u] = call[u]
  BY DEF TypeOK, Moves

LEMMA GotoMoves ==
  ASSUME TypeOK, NEW t \in Threads,
         NEW p \in {"check", "remove", "remove_well_known", "release"}, Goto(t, p)
  PROVE  Moves(t, [call[t] EXCEPT !.pc = p])
<1>1. call[t] \in Call /\ call \in [Threads -> Call]
  BY DEF TypeOK
<1>2. [call[t] EXCEPT !.pc = p] \in Call
  BY <1>1 DEF Call
<1>3. call' = [call EXCEPT ![t] = [call[t] EXCEPT !.pc = p]]
  BY <1>1 DEF Goto
<1> QED
  BY <1>2, <1>3 DEF Moves

\* A call returns to its caller or to the drain of its context.
Returned(t) ==
  IF context[call[t].ctx].state = "closing"
  THEN [Idle EXCEPT !.pc = "drain", !.ctx = call[t].ctx] ELSE Idle

LEMMA ReturnMoves ==
  ASSUME TypeOK, NEW t \in Threads, Return(t)
  PROVE  /\ Moves(t, Returned(t))
         /\ Returned(t).pc \in {"idle", "drain"} /\ Returned(t).wk = NoHandle
         /\ Returned(t).entry = NoEntry
         /\ Returned(t).pc = "idle" => Returned(t) = Idle
         /\ Returned(t).pc = "drain" =>
              Returned(t).ctx = call[t].ctx /\ context[call[t].ctx].state = "closing"
<1>1. call[t] \in Call /\ call \in [Threads -> Call]
  BY DEF TypeOK
<1>2. CASE context[call[t].ctx].state = "closing"
  <2>1. Returned(t) = [pc |-> "drain", ctx |-> call[t].ctx, wk |-> NoHandle, entry |-> NoEntry]
    BY <1>2 DEF Returned, Idle
  <2>2. Returned(t) \in Call
    BY <1>1, <2>1 DEF Call
  <2>3. call' = [call EXCEPT ![t] = Returned(t)]
    BY <1>1, <1>2 DEF Return, Returned
  <2> QED
    BY <1>2, <2>1, <2>2, <2>3 DEF Moves
<1>3. CASE context[call[t].ctx].state # "closing"
  <2>1. Returned(t) = Idle
    BY <1>3 DEF Returned
  <2>2. call' = [call EXCEPT ![t] = Idle]
    BY <1>1, <1>3 DEF Return
  <2> QED
    BY <2>1, <2>2, IdleType DEF Moves
<1> QED
  BY <1>2, <1>3

\* The holders of an entry are finitely many, and change by one at most.
LEMMA HoldersFinite ==
  ASSUME NEW e PROVE IsFiniteSet(Holders(e)) /\ Cardinality(Holders(e)) \in Nat
<1>1. Holders(e) \in SUBSET Threads
  BY DEF Holders
<1>2. IsFiniteSet(Holders(e))
  BY <1>1, WellKnownMapAssumption, FS_Subset
<1> QED
  BY <1>2, FS_CardinalityType

LEMMA HoldersChange ==
  ASSUME TypeOK, NEW t \in Threads, NEW r, Moves(t, r), NEW e
  PROVE  Holders(e)' = IF r.entry = e /\ r.pc # "add_well_known"
                       THEN Holders(e) \cup {t} ELSE Holders(e) \ {t}
<1>1. call'[t] = r /\ \A u \in Threads \ {t} : call'[u] = call[u]
  BY MovesType
<1>2. \A u : u \in Holders(e)' <=>
        (u \in Threads /\ call'[u].entry = e /\ call'[u].pc # "add_well_known")
  BY DEF Holders
<1>3. \A u : u \in Holders(e) <=>
        (u \in Threads /\ call[u].entry = e /\ call[u].pc # "add_well_known")
  BY DEF Holders
<1>4. CASE r.entry = e /\ r.pc # "add_well_known"
  <2>1. \A u : u \in Holders(e)' <=> u \in Holders(e) \cup {t}
    BY <1>1, <1>2, <1>3, <1>4
  <2> QED
    BY <1>4, <2>1
<1>5. CASE ~(r.entry = e /\ r.pc # "add_well_known")
  <2>1. \A u : u \in Holders(e)' <=> u \in Holders(e) \ {t}
    BY <1>1, <1>2, <1>3, <1>5
  <2> QED
    BY <1>5, <2>1
<1> QED
  BY <1>4, <1>5

\* A holder of an entry is in one of the four places; the entry is in memory.
LEMMA HolderBound ==
  ASSUME Inv, NEW e \in Entry, NEW t \in Holders(e)
  PROVE  /\ t \in Threads /\ call[t].pc \in Holding /\ call[t].entry = e
         /\ call[t].wk = entry[e].handle /\ entry[e].allocated
<1>1. t \in Threads /\ call[t].entry = e /\ call[t].pc # "add_well_known" /\ Bound(call[t])
  BY DEF Holders, Inv, Table
<1>2. call[t] \in Call
  BY <1>1 DEF Inv, TypeOK
<1>3. call[t].pc \in Holding
  BY <1>1, <1>2, HashTableAssumption DEF Bound, Unbound, Holding, Call
<1> QED
  BY <1>1, <1>3 DEF Bound, Inv, Table, Counted

\* Whoever is in one of these places holds an entry.
LEMMA HoldingHolds ==
  ASSUME Inv, NEW t \in Threads, call[t].pc \in Holding
  PROVE  /\ call[t].entry \in Entry /\ t \in Holders(call[t].entry)
         /\ entry[call[t].entry].allocated
         /\ entry[call[t].entry].handle = call[t].wk /\ call[t].wk \in Handle
<1>1. call[t].entry \in Entry /\ call[t].wk = entry[call[t].entry].handle
  BY DEF Inv, Table, Bound
<1>2. t \in Holders(call[t].entry)
  BY DEF Holders, Holding
<1> QED
  BY <1>1, <1>2 DEF Inv, Table, Counted


\* A step that leaves the table alone, of a call that holds an entry before and
\* after it or neither.
LEMMA TableKept ==
  ASSUME Inv, NEW t \in Threads, NEW r, Moves(t, r), UNCHANGED tableVars, Bound(r),
         IF call[t].pc \in Holding THEN r.pc \in Holding /\ r.entry = call[t].entry
                                   ELSE r.pc \notin Holding
  PROVE  Table'
<1>1. linked' = linked /\ entry' = entry /\ mistaken' = mistaken
  BY DEF tableVars
<1>2. call'[t] = r /\ \A u \in Threads \ {t} : call'[u] = call[u]
  BY MovesType DEF Inv
<1>3. ASSUME NEW e \in Entry PROVE Holders(e)' = Holders(e)
  <2>1. t \in Holders(e) <=> (call[t].pc \in Holding /\ call[t].entry = e)
    BY HolderBound DEF Holders, Holding
  <2>2. (r.entry = e /\ r.pc # "add_well_known") <=> (r.pc \in Holding /\ r.entry = e)
    <3>1. r \in Call
      BY DEF Moves
    <3> QED
      BY <3>1, HashTableAssumption DEF Call, Bound, Unbound, Holding
  <2> QED
    BY <2>1, <2>2, HoldersChange DEF Inv
<1>4. ASSUME NEW e \in Entry PROVE Counted(e)'
  BY <1>1, <1>3 DEF Inv, Table, Counted, Link
<1>5. ASSUME NEW u \in Threads PROVE Bound(call'[u])
  BY <1>2 DEF Inv, Table
<1>6. ASSUME NEW u \in Threads PROVE Bound(call[u])'
  BY <1>1, <1>5 DEF Bound
<1> QED
  BY <1>1, <1>4, <1>6 DEF Inv, Table, HandlesDiffer

\* A step that leaves contexts open or closing as they are.
SameContexts ==
  \A c \in Contexts :
    context'[c].state = context[c].state /\ context'[c].cid = context[c].cid

LEMMA ServedKept ==
  ASSUME Inv, NEW t \in Threads, NEW r, Moves(t, r), SameContexts, Serves(r),
         r.ctx \in Contexts /\ context[r.ctx].state = "closing" => r.ctx = call[t].ctx
  PROVE  Served'
<1>1. call'[t] = r /\ \A u \in Threads \ {t} : call'[u] = call[u]
  BY MovesType DEF Inv
<1>2. ASSUME NEW u \in Threads PROVE Serves(call'[u])
  BY <1>1 DEF Inv, Served
<1>3. ASSUME NEW u \in Threads PROVE Serves(call[u])'
  BY <1>2 DEF Serves, SameContexts
<1>4. DrainsAlone'
  <2> SUFFICES ASSUME NEW u \in Threads, NEW v \in Threads, call'[u].ctx = call'[v].ctx,
                      call'[u].ctx \in Contexts, context'[call'[u].ctx].state = "closing"
               PROVE  u = v
    BY DEF DrainsAlone
  <2>1. context[call'[u].ctx].state = "closing"
    BY DEF SameContexts
  <2>2. call[u].ctx = call'[u].ctx /\ call[v].ctx = call'[v].ctx
    BY <1>1, <2>1
  <2> QED
    BY <2>1, <2>2 DEF Inv, Served, DrainsAlone
<1>5. IdsDiffer'
  BY DEF Inv, Served, IdsDiffer, SameContexts
<1> QED
  BY <1>3, <1>4, <1>5 DEF Served

\* A step that writes one number into one array.
Written(c, w, n) ==
  /\ context'[c].array[w] = n
  /\ \A d \in Contexts, v \in Handle :
       d # c \/ v # w => context'[d].array[v] = context[d].array[v]

LEMMA ArrayWritten ==
  ASSUME TypeOK, NEW c \in Contexts, NEW w \in Handle, NEW n \in Nat,
         context' = [context EXCEPT ![c].array[w] = n]
  PROVE  /\ context' \in [Contexts -> [state : States, cid : Ids \cup {NoId},
                                       array : [Handle -> Nat]]]
         /\ SameContexts
         /\ Written(c, w, n)
<1> DEFINE R == [state : States, cid : Ids \cup {NoId}, array : [Handle -> Nat]]
           a == [context[c].array EXCEPT ![w] = n]
           x == [context[c] EXCEPT !.array = a]
<1>1. context \in [Contexts -> R] /\ context[c] \in R
  BY DEF TypeOK
<1>2. a \in [Handle -> Nat] /\ a[w] = n /\ \A v \in Handle \ {w} : a[v] = context[c].array[v]
  BY <1>1
<1>3. x \in R /\ x.array = a /\ x.state = context[c].state /\ x.cid = context[c].cid
  <2> HIDE DEF a
  <2> QED
    BY <1>1, <1>2
<1>4. context' = [context EXCEPT ![c] = x]
  BY <1>1
<1> HIDE DEF x, a
<1>5. context' \in [Contexts -> R] /\ context'[c] = x
      /\ \A d \in Contexts \ {c} : context'[d] = context[d]
  <2> HIDE DEF R
  <2> QED
    BY <1>1, <1>3, <1>4
<1>6. SameContexts
  BY <1>3, <1>5 DEF SameContexts
<1> QED
  BY <1>2, <1>3, <1>5, <1>6 DEF Written

-----------------------------------------------------------------------------
(* Contexts come and go.                                                   *)

\* Nothing is said of the calls and entries if these stay as they are.
LEMMA TableSame ==
  ASSUME Inv, UNCHANGED <<tableVars, call>> PROVE Table'
<1>1. linked' = linked /\ entry' = entry /\ mistaken' = mistaken /\ call' = call
  BY DEF tableVars
<1> QED
  BY <1>1 DEF Inv, Table, Counted, Holders, Link, Bound, HandlesDiffer

LEMMA InitContextInv ==
  ASSUME Inv, NEW c \in Contexts, InitContext(c) PROVE Inv'
<1>0. PICK i \in Ids :
        /\ Listed(i) = {}
        /\ context' = [context EXCEPT ![c].state = "open", ![c].cid = i]
  BY DEF InitContext
<1>1. /\ context[c].state = "unused" /\ UNCHANGED <<tableVars, contextID, call>>
  BY DEF InitContext
<1>2. /\ context'[c].state = "open" /\ context'[c].cid = i
      /\ \A d \in Contexts \ {c} : context'[d] = context[d]
  BY <1>0 DEF Inv, TypeOK
<1>3. TypeOK'
  <2>1. context' \in [Contexts -> [state : States, cid : Ids \cup {NoId},
                                   array : [Handle -> Nat]]]
    BY <1>0 DEF Inv, TypeOK, States
  <2> QED
    BY <1>1, <2>1 DEF Inv, TypeOK, TableTypeOK, tableVars
<1>4. ASSUME NEW u \in Threads PROVE Serves(call[u])' /\ call[u].ctx # c
  <2>1. Serves(call[u])
    BY DEF Inv, Served
  <2>2. call[u].ctx # c
    BY <1>1, <2>1, IdleType, WellKnownMapAssumption DEF Serves
  <2>3. call[u].ctx \in Contexts => context'[call[u].ctx] = context[call[u].ctx]
    BY <1>2, <2>2
  <2>4. call'[u] = call[u] /\ call[u] \in Call
    BY <1>1 DEF Inv, TypeOK
  <2>5. Serves(call[u])'
    BY <2>1, <2>3, <2>4 DEF Serves, Call
  <2> QED
    BY <2>2, <2>5
<1>5. DrainsAlone'
  BY <1>1, <1>2, <1>4 DEF Inv, Served, DrainsAlone
<1>6. IdsDiffer'
  BY <1>0, <1>2, ZenonT(120) DEF Inv, Served, IdsDiffer, Listed
<1> QED
  BY <1>1, <1>3, <1>4, <1>5, <1>6, TableSame DEF Inv, Served

LEMMA CloseContextInv ==
  ASSUME Inv, NEW t \in Threads, NEW c \in Contexts, CloseContext(t, c) PROVE Inv'
<1> DEFINE r == [pc |-> "drain", ctx |-> c, wk |-> NoHandle, entry |-> NoEntry]
<1>1. /\ call[t] = Idle /\ context[c].state = "open" /\ \A u \in Threads : call[u].ctx # c
      /\ context' = [context EXCEPT ![c].state = "closing"]
      /\ UNCHANGED tableVars /\ UNCHANGED contextID
  BY DEF CloseContext
<1>2. Moves(t, r)
  <2>1. call' = [call EXCEPT ![t] = r]
    <3>1. call \in [Threads -> Call]
      BY DEF Inv, TypeOK
    <3> QED
      BY <1>1, <3>1 DEF CloseContext, Idle
  <2> QED
    BY <2>1 DEF Moves, Call
<1>3. Bound(r) /\ r.pc \notin Holding /\ call[t].pc \notin Holding
  BY <1>1, IdleType DEF Bound, Unbound, Holding
<1>4. call'[t] = r /\ \A u \in Threads \ {t} : call'[u] = call[u]
  BY <1>2, MovesType DEF Inv
<1>5. /\ context'[c].state = "closing" /\ context'[c].cid = context[c].cid
      /\ \A d \in Contexts \ {c} : context'[d] = context[d]
  BY <1>1 DEF Inv, TypeOK
<1>6. TypeOK'
  <2>1. context' \in [Contexts -> [state : States, cid : Ids \cup {NoId},
                                   array : [Handle -> Nat]]]
    BY <1>1 DEF Inv, TypeOK, States
  <2> QED
    BY <1>1, <1>2, <2>1, MovesType DEF Inv, TypeOK, TableTypeOK, tableVars
<1>7. ASSUME NEW u \in Threads \ {t}
      PROVE  Serves(call[u])' /\ (call[u].ctx \in Contexts => context'[call[u].ctx] = context[call[u].ctx])
  BY <1>1, <1>4, <1>5 DEF Inv, Served, Serves
<1>8. Serves(call[t])'
  BY <1>4, <1>5 DEF Serves
<1>9. DrainsAlone'
  BY <1>1, <1>4, <1>7 DEF Inv, Served, DrainsAlone
<1>10. IdsDiffer'
  BY <1>5 DEF Inv, Served, IdsDiffer
<1>11. Table'
  <2> HIDE DEF r
  <2> QED
    BY <1>1, <1>2, <1>3, TableKept
<1> QED
  BY <1>6, <1>7, <1>8, <1>9, <1>10, <1>11 DEF Inv, Served

\* The drain takes an id, or the context is gone.
LEMMA DrainInv ==
  ASSUME Inv, NEW t \in Threads, Drain(t) PROVE Inv'
<1> DEFINE c == call[t].ctx
<1>1. /\ call[t].pc = "drain" /\ UNCHANGED tableVars /\ UNCHANGED contextID
      /\ call[t] \in Call /\ call[t].entry = NoEntry
      /\ c \in Contexts /\ context[c].state = "closing"
  BY DEF Drain, Inv, TypeOK, Table, Served, Bound, Unbound, Serves
<1>2. CASE \E w \in Handle :
             /\ context[c].array[w] > 0
             /\ context' = [context EXCEPT ![c].array[w] = @ - 1]
             /\ call' = [call EXCEPT ![t].pc = "get", ![t].wk = w]
  <2>1. PICK w \in Handle :
          /\ context[c].array[w] > 0
          /\ context' = [context EXCEPT ![c].array[w] = @ - 1]
          /\ call' = [call EXCEPT ![t].pc = "get", ![t].wk = w]
    BY <1>2
  <2> DEFINE r == [call[t] EXCEPT !.pc = "get", !.wk = w]
  <2>2. /\ Moves(t, r) /\ r.pc = "get" /\ r.wk = w /\ r.entry = NoEntry /\ r.ctx = c
    <3>1. call \in [Threads -> Call]
      BY DEF Inv, TypeOK
    <3>2. call' = [call EXCEPT ![t] = r]
      BY <2>1, <3>1
    <3> QED
      BY <1>1, <3>2 DEF Moves, Call
  <2>3. TypeOK' /\ SameContexts
    <3>1. /\ context' \in [Contexts -> [state : States, cid : Ids \cup {NoId},
                                        array : [Handle -> Nat]]]
          /\ SameContexts
      <4>1. context[c].array[w] - 1 \in Nat
        BY <1>1, <2>1 DEF Inv, TypeOK
      <4> QED
        BY <1>1, <2>1, <4>1, ArrayWritten DEF Inv
    <3> QED
      BY <1>1, <2>2, <3>1, MovesType DEF Inv, TypeOK, TableTypeOK, tableVars
  <2> HIDE DEF r
  <2>4. Bound(r) /\ Serves(r) /\ r.pc \notin Holding /\ call[t].pc \notin Holding
    BY <1>1, <2>2 DEF Bound, Serves, Unbound, Holding
  <2> QED
    BY <1>1, <2>2, <2>3, <2>4, TableKept, ServedKept DEF Inv
<1>3. CASE /\ context' = [context EXCEPT ![c].state = "gone"]
           /\ call' = [call EXCEPT ![t] = Idle]
  <2>1. Moves(t, Idle) /\ Bound(Idle) /\ Idle.pc \notin Holding /\ call[t].pc \notin Holding
    BY <1>1, <1>3, IdleType DEF Moves, Bound, Unbound, Holding
  <2>2. call'[t] = Idle /\ \A u \in Threads \ {t} : call'[u] = call[u]
    BY <2>1, MovesType DEF Inv
  <2>3. /\ context'[c].state = "gone" /\ context'[c].cid = context[c].cid
        /\ \A d \in Contexts \ {c} : context'[d] = context[d]
    BY <1>1, <1>3 DEF Inv, TypeOK
  <2>4. TypeOK'
    <3>1. context' \in [Contexts -> [state : States, cid : Ids \cup {NoId},
                                     array : [Handle -> Nat]]]
      BY <1>1, <1>3, ZenonT(60) DEF Inv, TypeOK, States
    <3> QED
      BY <1>1, <2>1, <3>1, MovesType DEF Inv, TypeOK, TableTypeOK, tableVars
  <2>5. ASSUME NEW u \in Threads \ {t} PROVE call[u].ctx # c /\ Serves(call[u])'
    <3>1. call[u].ctx # c
      BY <1>1 DEF Inv, Served, DrainsAlone
    <3>2. Serves(call[u]) /\ call'[u] = call[u]
      BY <2>2 DEF Inv, Served
    <3>3. call[u].ctx \in Contexts => context'[call[u].ctx] = context[call[u].ctx]
      BY <2>3, <3>1
    <3>4. Serves(call[u])'
      BY <3>2, <3>3, IdleType DEF Serves
    <3> QED
      BY <3>1, <3>4
  <2>6. Serves(call[t])'
    BY <2>2, IdleType DEF Serves
  <2>7. DrainsAlone'
    BY <1>1, <2>2, <2>3, <2>5, IdleType, WellKnownMapAssumption DEF Inv, Served, DrainsAlone
  <2>8. IdsDiffer'
    BY <2>3 DEF Inv, Served, IdsDiffer
  <2>9. Table'
    BY <1>1, <2>1, TableKept
  <2> QED
    BY <2>4, <2>5, <2>6, <2>7, <2>8, <2>9 DEF Inv, Served
<1> QED
  BY <1>2, <1>3 DEF Drain

-----------------------------------------------------------------------------
(* A mapping is requested.                                                 *)

\* Nobody holds an entry that is not in memory, or that has a handle which no
\* call works on.
LEMMA FreshEntry ==
  ASSUME Inv, NEW e \in Entry, ~entry[e].allocated
  PROVE  e \notin linked /\ Holders(e) = {} /\ Cardinality(Holders(e)) = 0
  BY FS_EmptySet DEF Inv, Table, Counted

LEMMA RequestInv ==
  ASSUME Apart, Inv, NEW t \in Threads, NEW c \in Contexts, NEW w \in Handle,
         NEW e \in Entry, Request(t, c, w, e)
  PROVE  Inv'
<1> DEFINE r == [pc |-> "add_well_known", ctx |-> c, wk |-> w, entry |-> e]
           new == [allocated |-> TRUE, handle |-> w, refCount |-> 1]
<1>1. /\ call[t] = Idle /\ context[c].state = "open" /\ ~Busy(w) /\ context' = context
      /\ ~entry[e].allocated /\ ~EntryExists(w)
      /\ linked' = linked \cup {e} /\ mistaken' = mistaken
      /\ entry' = [entry EXCEPT ![e] = new]
      /\ contextID' = [contextID EXCEPT ![e] = context[c].cid]
  BY DEF Request, AddEntry, Apart
<1>2. Moves(t, r)
  BY DEF Request, Moves, Call
<1>3. call'[t] = r /\ \A u \in Threads \ {t} : call'[u] = call[u]
  BY <1>2, MovesType DEF Inv
<1>4. entry'[e] = new /\ \A d \in Entry \ {e} : entry'[d] = entry[d]
  BY <1>1 DEF Inv, TypeOK, TableTypeOK
<1>5. TypeOK'
  <2>1. TableTypeOK'
    BY <1>1 DEF Inv, TypeOK, TableTypeOK
  <2>2. contextID' \in [Entry -> Ids \cup {NoId}]
    BY <1>1 DEF Inv, TypeOK
  <2> QED
    BY <1>1, <1>2, <2>1, <2>2, MovesType DEF Inv, TypeOK
<1>6. ASSUME NEW d \in Entry PROVE Holders(d)' = Holders(d)
  <2>1. t \notin Holders(d)
    BY <1>1, IdleType, HashTableAssumption DEF Holders
  <2>2. Holders(d)' = Holders(d) \ {t}
    BY <1>2, HoldersChange DEF Inv
  <2> QED
    BY <2>1, <2>2
<1>7. e \notin linked /\ Holders(e) = {} /\ Cardinality(Holders(e)) = 0
  BY <1>1, FreshEntry
<1>8. Counted(e)'
  BY <1>1, <1>4, <1>6, <1>7 DEF Counted, Link
<1>9. ASSUME NEW d \in Entry \ {e} PROVE Counted(d)'
  BY <1>1, <1>4, <1>6 DEF Inv, Table, Counted, Link
<1>10. ASSUME NEW u \in Threads \ {t} PROVE Bound(call[u])'
  <2>1. call'[u] = call[u] /\ Bound(call[u])
    BY <1>3 DEF Inv, Table
  <2>2. call[u].pc \in Holding => call[u].entry # e
    BY <1>1, HoldingHolds
  <2>3. call[u].pc = "remove_well_known" => call[u].pc \in Holding
    BY DEF Holding
  <2> QED
    BY <1>1, <1>4, <2>1, <2>2, <2>3 DEF Bound
<1>11. Bound(call[t])'
  BY <1>3 DEF Bound, Unbound, Holding
<1>12. ASSUME NEW d \in Entry, entry[d].allocated PROVE entry[d].handle # w
  <2>1. CASE d \in linked
    BY <1>1, <2>1 DEF EntryExists, Under
  <2>2. CASE Holders(d) # {}
    <3>1. PICK u : u \in Holders(d)
      BY <2>2
    <3> QED
      BY <1>1, <3>1, HolderBound DEF Busy
  <2> QED
    BY <1>12, <2>1, <2>2 DEF Inv, Table, Counted
<1>13. HandlesDiffer'
  BY <1>4, <1>12 DEF Inv, Table, HandlesDiffer
<1>14. Served'
  <2>1. Serves(r) /\ r.ctx = c
    BY <1>1 DEF Serves
  <2>2. SameContexts
    BY <1>1 DEF SameContexts
  <2> HIDE DEF r
  <2> QED
    BY <1>1, <1>2, <2>1, <2>2, ServedKept
<1> QED
  BY <1>1, <1>5, <1>8, <1>9, <1>10, <1>11, <1>13, <1>14 DEF Inv, Table

LEMMA AddWellKnownInv ==
  ASSUME Inv, NEW t \in Threads, AddWellKnown(t) PROVE Inv'
<1>0. /\ call[t].pc = "add_well_known" /\ UNCHANGED tableVars /\ UNCHANGED contextID
      /\ call' = [call EXCEPT ![t] = Idle]
  BY DEF AddWellKnown
<1>1. call[t].wk \in Handle
  BY <1>0 DEF Inv, Table, Bound
<1>2. PICK c \in Contexts, n \in {0, 1} :
        context' = [context EXCEPT ![c].array[call[t].wk] = @ + n]
  BY DEF AddWellKnown, Listed
<1>3. context[c].array[call[t].wk] + n \in Nat
  BY <1>1 DEF Inv, TypeOK
<1>4. /\ SameContexts
      /\ context' \in [Contexts -> [state : States, cid : Ids \cup {NoId},
                                    array : [Handle -> Nat]]]
  BY <1>1, <1>2, <1>3, ArrayWritten DEF Inv
<1>5. Moves(t, Idle)
  BY <1>0, IdleType DEF Moves
<1>6. TypeOK'
  BY <1>0, <1>4, <1>5, MovesType DEF Inv, TypeOK, TableTypeOK, tableVars
<1>7. Bound(Idle) /\ Serves(Idle) /\ Idle.pc \notin Holding /\ call[t].pc \notin Holding
  BY <1>0, IdleType DEF Bound, Serves, Unbound, Holding
<1> QED
  BY <1>0, <1>4, <1>5, <1>6, <1>7, IdleType, WellKnownMapAssumption, TableKept, ServedKept
  DEF Inv

-----------------------------------------------------------------------------
(* A mapping is removed or looked up.                                      *)

\* A call takes a reference to an entry that is on the table.
LEMMA GetInv ==
  ASSUME Inv, NEW t \in Threads, NEW e \in Entry, NEW w \in Handle, GetEntry(e, w),
         NEW r, Moves(t, r), call[t].pc \notin Holding,
         r.pc \in {"check", "release"}, r.entry = e, r.wk = w,
         UNCHANGED <<contextID, context>>
  PROVE  TypeOK' /\ Table'
<1>1. /\ e \in linked /\ entry[e].handle = w /\ linked' = linked /\ mistaken' = mistaken
      /\ entry' = [entry EXCEPT ![e].refCount = @ + 1]
  BY DEF GetEntry, Under
<1>2. /\ entry'[e].allocated = entry[e].allocated /\ entry'[e].handle = w
      /\ entry'[e].refCount = entry[e].refCount + 1
      /\ \A d \in Entry \ {e} : entry'[d] = entry[d]
  BY <1>1 DEF Inv, TypeOK, TableTypeOK
<1>3. TypeOK'
  <2>1. TableTypeOK'
    BY <1>1, SMTT(60) DEF Inv, TypeOK, TableTypeOK
  <2> QED
    BY <2>1, MovesType DEF Inv, TypeOK
<1>4. call'[t] = r /\ \A u \in Threads \ {t} : call'[u] = call[u]
  BY MovesType DEF Inv
<1>5. t \notin Holders(e)
  BY HolderBound
<1>6. Holders(e)' = Holders(e) \cup {t}
  BY HoldersChange DEF Inv
<1>7. Cardinality(Holders(e)') = Cardinality(Holders(e)) + 1
  BY <1>5, <1>6, HoldersFinite, FS_AddElement
<1>8. Counted(e)'
  BY <1>1, <1>2, <1>7, HoldersFinite DEF Inv, Table, Counted, Link
<1>9. ASSUME NEW d \in Entry \ {e} PROVE Counted(d)'
  <2>1. Holders(d)' = Holders(d)
    <3>1. t \notin Holders(d)
      BY HolderBound
    <3>2. Holders(d)' = Holders(d) \ {t}
      BY HoldersChange DEF Inv
    <3> QED
      BY <3>1, <3>2
  <2> QED
    BY <1>1, <1>2, <2>1 DEF Inv, Table, Counted, Link
<1>10. ASSUME NEW u \in Threads PROVE Bound(call[u])'
  <2>1. Bound(call'[u])
    BY <1>1, <1>4 DEF Inv, Table, Bound, Unbound, Holding
  <2> QED
    BY <1>1, <1>2, <2>1 DEF Bound
<1>11. HandlesDiffer'
  <2>1. \A d \in Entry : entry'[d].allocated = entry[d].allocated
                          /\ entry'[d].handle = entry[d].handle
    BY <1>1, <1>2
  <2> QED
    BY <2>1 DEF Inv, Table, HandlesDiffer
<1> QED
  BY <1>1, <1>3, <1>8, <1>9, <1>10, <1>11 DEF Inv, Table

\* A call of an open context is served by it.
LEMMA StartServes ==
  ASSUME NEW c \in Contexts, context[c].state = "open",
         NEW r, r.ctx = c, r.pc \in {"get", "release"}
  PROVE  Serves(r)
  BY DEF Serves

LEMMA RemoveInv ==
  ASSUME Inv, NEW t \in Threads, NEW c \in Contexts, NEW w \in Handle, Remove(t, c, w)
  PROVE  Inv'
<1> DEFINE r == [pc |-> "get", ctx |-> c, wk |-> w, entry |-> NoEntry]
<1>1. /\ call[t] = Idle /\ context[c].state = "open"
      /\ UNCHANGED tableVars /\ UNCHANGED contextID /\ context' = context
  BY DEF Remove
<1>2. Moves(t, r)
  BY DEF Remove, Moves, Call
<1>3. Bound(r) /\ r.pc \notin Holding /\ call[t].pc \notin Holding /\ Serves(r) /\ r.ctx = c
  BY <1>1, IdleType DEF Bound, Serves, Unbound, Holding
<1>4. TypeOK'
  BY <1>1, <1>2, MovesType DEF Inv, TypeOK, TableTypeOK, tableVars
<1>5. SameContexts
  BY <1>1 DEF SameContexts
<1> HIDE DEF r
<1> QED
  BY <1>1, <1>2, <1>3, <1>4, <1>5, TableKept, ServedKept DEF Inv

LEMMA LookupInv ==
  ASSUME Inv, NEW t \in Threads, NEW c \in Contexts, NEW w \in Handle, Lookup(t, c, w)
  PROVE  Inv'
<1>1. /\ call[t] = Idle /\ context[c].state = "open"
      /\ UNCHANGED <<contextID, context>>
  BY DEF Lookup
<1>2. PICK e \in Entry :
        /\ GetEntry(e, w)
        /\ call' = [call EXCEPT ![t] = [pc |-> "release", ctx |-> c, wk |-> w, entry |-> e]]
  BY DEF Lookup
<1> DEFINE r == [pc |-> "release", ctx |-> c, wk |-> w, entry |-> e]
<1>3. Moves(t, r)
  BY <1>2 DEF Moves, Call
<1>4. /\ call[t].pc \notin Holding /\ Serves(r)
      /\ r.ctx = c /\ r.pc = "release" /\ r.entry = e /\ r.wk = w
  BY <1>1, IdleType DEF Serves, Holding
<1>5. SameContexts
  BY <1>1 DEF SameContexts
<1> HIDE DEF r
<1>6. TypeOK' /\ Table'
  BY <1>1, <1>2, <1>3, <1>4, GetInv
<1>7. Served'
  BY <1>1, <1>3, <1>4, <1>5, ServedKept
<1> QED
  BY <1>6, <1>7 DEF Inv

\* A call that returns, and is not one that holds an entry.
LEMMA ReturnServes ==
  ASSUME Inv, NEW t \in Threads, call[t].pc # "idle", Return(t), context' = context
  PROVE  Served'
<1> DEFINE r == Returned(t)
<1>1. /\ Moves(t, r) /\ r.pc \in {"idle", "drain"}
      /\ r.pc = "idle" => r = Idle
      /\ r.pc = "drain" => r.ctx = call[t].ctx /\ context[call[t].ctx].state = "closing"
  BY ReturnMoves DEF Inv
<1>2. call[t].ctx \in Contexts
  BY DEF Inv, Served, Serves
<1>3. SameContexts
  BY DEF SameContexts
<1> HIDE DEF r
<1>4. Serves(r) /\ (r.ctx \in Contexts => r.ctx = call[t].ctx)
  BY <1>1, <1>2, IdleType, WellKnownMapAssumption DEF Serves
<1> QED
  BY <1>1, <1>3, <1>4, ServedKept

LEMMA GetWellKnownMapInv ==
  ASSUME Inv, NEW t \in Threads, GetWellKnownMap(t) PROVE Inv'
<1>1. /\ call[t].pc = "get" /\ UNCHANGED <<contextID, context>> /\ call[t].pc \notin Holding
      /\ call[t] \in Call /\ call[t].wk \in Handle
  BY DEF GetWellKnownMap, Holding, Inv, TypeOK, Table, Bound
<1>2. CASE Return(t) /\ UNCHANGED tableVars
  <2> DEFINE r == Returned(t)
  <2>1. Moves(t, r) /\ r.pc \in {"idle", "drain"} /\ r.entry = NoEntry
    BY <1>2, ReturnMoves DEF Inv
  <2> HIDE DEF r
  <2>2. Bound(r) /\ r.pc \notin Holding
    BY <2>1 DEF Bound, Unbound, Holding
  <2>3. Table'
    BY <1>1, <1>2, <2>1, <2>2, TableKept
  <2>4. TypeOK'
    BY <1>1, <1>2, <2>1, MovesType DEF Inv, TypeOK, TableTypeOK, tableVars
  <2> QED
    BY <1>1, <1>2, <2>3, <2>4, ReturnServes DEF Inv
<1>3. ASSUME NEW e \in Entry, GetEntry(e, call[t].wk),
             call' = [call EXCEPT ![t].pc = "check", ![t].entry = e]
      PROVE  Inv'
  <2> DEFINE r == [call[t] EXCEPT !.pc = "check", !.entry = e]
  <2>1. Moves(t, r)
    <3>1. call \in [Threads -> Call]
      BY DEF Inv, TypeOK
    <3>2. call' = [call EXCEPT ![t] = r]
      BY <1>3, <3>1
    <3> QED
      BY <1>1, <3>2 DEF Moves, Call
  <2>2. r.pc = "check" /\ r.entry = e /\ r.wk = call[t].wk /\ r.ctx = call[t].ctx
    BY <1>1 DEF Call
  <2> HIDE DEF r
  <2>3. TypeOK' /\ Table'
    BY <1>1, <1>3, <2>1, <2>2, GetInv
  <2>4. Serves(r) /\ SameContexts
    BY <1>1, <2>2 DEF Inv, Served, Serves, SameContexts
  <2> QED
    BY <2>1, <2>2, <2>3, <2>4, ServedKept DEF Inv
<1> QED
  BY <1>2, <1>3 DEF GetWellKnownMap

\* A holder goes on to its next place; it keeps its call otherwise.
LEMMA GotoServes ==
  ASSUME Inv, NEW t \in Threads, call[t].pc \in Holding,
         NEW p \in {"remove", "remove_well_known", "release"}, Goto(t, p), SameContexts
  PROVE  Served'
<1> DEFINE r == [call[t] EXCEPT !.pc = p]
<1>1. Moves(t, r)
  BY GotoMoves DEF Inv
<1>2. call[t] \in Call /\ call[t].pc # "idle"
  BY DEF Inv, TypeOK, Holding
<1>3. r.pc = p /\ r.ctx = call[t].ctx
  BY <1>2 DEF Call
<1> HIDE DEF r
<1>4. Serves(r)
  BY <1>2, <1>3 DEF Inv, Served, Serves
<1> QED
  BY <1>1, <1>3, <1>4, ServedKept

LEMMA CheckOwnerInv ==
  ASSUME Inv, NEW t \in Threads, CheckOwner(t) PROVE Inv'
<1> DEFINE p == IF contextID[call[t].entry] = context[call[t].ctx].cid
                THEN "remove" ELSE "release"
           r == [call[t] EXCEPT !.pc = p]
<1>1. /\ call[t].pc = "check" /\ call[t].pc \in Holding /\ Goto(t, p)
      /\ UNCHANGED <<tableVars, contextID, context>> /\ p \in {"remove", "release"}
  BY DEF CheckOwner, Holding
<1> HIDE DEF p
<1>2. Moves(t, r)
  BY <1>1, GotoMoves DEF Inv
<1>3. call[t] \in Call /\ Bound(call[t])
  BY DEF Inv, TypeOK, Table
<1>4. r.pc = p /\ r.entry = call[t].entry /\ r.wk = call[t].wk
  BY <1>3 DEF Call
<1> HIDE DEF r
<1>5. Bound(r) /\ r.pc \in Holding
  BY <1>1, <1>3, <1>4 DEF Bound, Unbound, Holding
<1>6. Table'
  BY <1>1, <1>2, <1>4, <1>5, TableKept
<1>7. TypeOK'
  BY <1>1, <1>2, MovesType DEF Inv, TypeOK, TableTypeOK, tableVars
<1>8. Served'
  <2>1. SameContexts
    BY <1>1 DEF SameContexts
  <2> QED
    BY <1>1, <2>1, GotoServes
<1> QED
  BY <1>6, <1>7, <1>8 DEF Inv

\* Under the handle of an entry in memory there is that entry or none.
LEMMA UnderIsItself ==
  ASSUME Inv, NEW e \in Entry, entry[e].allocated
  PROVE  /\ Under(entry[e].handle) = IF e \in linked THEN {e} ELSE {}
         /\ Unlinked(e) = linked \ {e}
         /\ ~Mistakes(e)
<1>1. \A d \in linked : d \in Entry /\ entry[d].allocated
  BY DEF Inv, TypeOK, TableTypeOK, Table, Counted
<1>2. \A d \in Under(entry[e].handle) : d = e
  BY <1>1 DEF Under, Inv, Table, HandlesDiffer
<1>3. e \in linked => e \in Under(entry[e].handle)
  BY DEF Under
<1>4. e \notin linked => e \notin Under(entry[e].handle)
  BY DEF Under
<1> QED
  BY <1>2, <1>3, <1>4 DEF Unlinked, Mistakes, Inv, Table

LEMMA RemoveMappingInv ==
  ASSUME Inv, NEW t \in Threads, RemoveMapping(t) PROVE Inv'
<1>0. PICK e \in Entry : e = call[t].entry
  BY HoldingHolds DEF RemoveMapping, Holding
<1> DEFINE r == [call[t] EXCEPT !.pc = "remove_well_known"]
<1>1. /\ call[t].pc = "remove" /\ call[t].pc \in Holding /\ Goto(t, "remove_well_known")
      /\ RemoveEntry(e) /\ UNCHANGED <<contextID, context>>
  BY <1>0 DEF RemoveMapping, Holding
<1>2. e = call[t].entry /\ t \in Holders(e) /\ entry[e].allocated /\ entry[e].handle = call[t].wk
  BY <1>0, <1>1, HoldingHolds
<1>3. Moves(t, r)
  BY <1>1, GotoMoves DEF Inv
<1>4. call[t] \in Call
  BY DEF Inv, TypeOK
<1>5. r.pc = "remove_well_known" /\ r.entry = e /\ r.wk = call[t].wk
  BY <1>2, <1>4 DEF Call
<1> HIDE DEF r
<1>6. call'[t] = r /\ \A u \in Threads \ {t} : call'[u] = call[u]
  BY <1>3, MovesType DEF Inv
<1>7. linked' = linked \ {e} /\ ~mistaken'
  BY <1>1, <1>2, UnderIsItself DEF RemoveEntry
<1>8. entry' = IF e \in linked THEN [entry EXCEPT ![e].refCount = @ - 1] ELSE entry
  BY <1>1, <1>2, UnderIsItself DEF RemoveEntry, EntryExists
<1>9. /\ entry[e].refCount = Cardinality(Holders(e)) + Link(e)
      /\ Cardinality(Holders(e)) \in Nat \ {0} /\ Holders(e) # {}
  <2>1. Cardinality(Holders(e)) # 0
    BY <1>2, HoldersFinite, FS_EmptySet
  <2> QED
    BY <1>2, <2>1, HoldersFinite DEF Inv, Table, Counted
<1>10. /\ entry'[e].allocated = entry[e].allocated /\ entry'[e].handle = entry[e].handle
       /\ entry'[e].refCount = Cardinality(Holders(e))
       /\ \A d \in Entry \ {e} : entry'[d] = entry[d]
       /\ TableTypeOK'
  <2> DEFINE R == [allocated : BOOLEAN, handle : Handle \cup {NoHandle}, refCount : Nat]
  <2>0. /\ linked' \in SUBSET Entry /\ mistaken' \in BOOLEAN
        /\ entry \in [Entry -> R] /\ entry[e] \in R
    <3>1. mistaken' \in BOOLEAN
      BY <1>1 DEF RemoveEntry, Mistakes
    <3> QED
      BY <1>7, <3>1 DEF Inv, TypeOK, TableTypeOK
  <2>1. CASE e \in linked
    <3>1. entry[e].refCount - 1 = Cardinality(Holders(e))
      BY <1>9, <2>1 DEF Link
    <3>2. entry' = [entry EXCEPT ![e] = [entry[e] EXCEPT !.refCount = Cardinality(Holders(e))]]
      BY <1>2, <1>8, <2>1, <3>1 DEF Inv, TypeOK, TableTypeOK
    <3> DEFINE x == [entry[e] EXCEPT !.refCount = Cardinality(Holders(e))]
    <3>3. /\ x \in R /\ x.allocated = entry[e].allocated /\ x.handle = entry[e].handle
          /\ x.refCount = Cardinality(Holders(e))
      BY <1>9, <2>0
    <3> HIDE DEF x
    <3>4. entry' \in [Entry -> R] /\ entry'[e] = x
          /\ \A d \in Entry \ {e} : entry'[d] = entry[d]
      <4>1. entry' = [entry EXCEPT ![e] = x]
        BY <3>2 DEF x
      <4> HIDE DEF R
      <4> QED
        BY <2>0, <3>3, <4>1
    <3> QED
      BY <2>0, <3>3, <3>4 DEF TableTypeOK
  <2>2. CASE e \notin linked
    <3>1. entry' = entry
      BY <1>8, <2>2
    <3>2. entry[e].refCount = Cardinality(Holders(e))
      BY <1>9, <2>2 DEF Link
    <3> QED
      BY <2>0, <3>1, <3>2 DEF TableTypeOK
  <2> QED
    BY <2>1, <2>2
<1>11. TypeOK'
  BY <1>1, <1>3, <1>10, MovesType DEF Inv, TypeOK
<1>12. ASSUME NEW d \in Entry PROVE Holders(d)' = Holders(d)
  <2>1. t \in Holders(d) <=> e = d
    BY <1>1, <1>2 DEF Holders
  <2>2. Holders(d)' = IF e = d THEN Holders(d) \cup {t} ELSE Holders(d) \ {t}
    BY <1>3, <1>5, HoldersChange DEF Inv
  <2> QED
    BY <2>1, <2>2
<1>13. Counted(e)'
  BY <1>2, <1>7, <1>9, <1>10, <1>12 DEF Inv, Table, Counted, Link
<1>14. ASSUME NEW d \in Entry \ {e} PROVE Counted(d)'
  BY <1>7, <1>10, <1>12 DEF Inv, Table, Counted, Link
<1>15. ASSUME NEW u \in Threads PROVE Bound(call[u])'
  <2>1. CASE u = t
    BY <1>2, <1>5, <1>6, <1>7, <1>10, <2>1 DEF Bound, Unbound
  <2>2. CASE u # t
    <3>1. Bound(call[u]) /\ call'[u] = call[u]
      BY <1>6, <2>2 DEF Inv, Table
    <3>2. \A d \in Entry : entry'[d].handle = entry[d].handle
      BY <1>10
    <3> QED
      BY <1>7, <3>1, <3>2 DEF Bound
  <2> QED
    BY <2>1, <2>2
<1>16. HandlesDiffer'
  <2>1. \A d \in Entry : entry'[d].allocated = entry[d].allocated
                          /\ entry'[d].handle = entry[d].handle
    BY <1>10
  <2> QED
    BY <2>1 DEF Inv, Table, HandlesDiffer
<1>17. Served'
  <2>1. SameContexts
    BY <1>1 DEF SameContexts
  <2> QED
    BY <1>1, <2>1, GotoServes
<1> QED
  BY <1>2, <1>7, <1>11, <1>13, <1>14, <1>15, <1>16, <1>17 DEF Inv, Table

\* RemoveWellKnown takes one from arrays that have one.
LEMMA ArraysShrink ==
  ASSUME Inv, NEW t \in Threads, RemoveWellKnown(t)
  PROVE  /\ call[t].wk \in Handle /\ SameContexts
         /\ context' \in [Contexts -> [state : States, cid : Ids \cup {NoId},
                                       array : [Handle -> Nat]]]
         /\ \A c \in Contexts, v \in Handle \ {call[t].wk} :
              context'[c].array[v] = context[c].array[v]
<1> DEFINE w == call[t].wk
           R == [state : States, cid : Ids \cup {NoId}, array : [Handle -> Nat]]
           less(c) == [context[c] EXCEPT !.array = [context[c].array EXCEPT ![w] = @ - 1]]
           takes(c) == c \in Listed(context[call[t].ctx].cid) /\ context[c].array[w] > 0
<1>1. w \in Handle
  BY HoldingHolds DEF RemoveWellKnown, Holding
<1>2. context' = [c \in Contexts |-> IF takes(c) THEN less(c) ELSE context[c]]
  BY DEF RemoveWellKnown
<1>3. ASSUME NEW c \in Contexts
      PROVE  /\ context'[c] \in R
             /\ context'[c].state = context[c].state /\ context'[c].cid = context[c].cid
             /\ \A v \in Handle \ {w} : context'[c].array[v] = context[c].array[v]
  <2>1. context[c] \in R /\ context[c].array \in [Handle -> Nat]
    BY DEF Inv, TypeOK
  <2>2. CASE takes(c)
    <3>1. context[c].array[w] - 1 \in Nat
      BY <1>1, <2>1, <2>2
    <3> DEFINE a == [context[c].array EXCEPT ![w] = @ - 1]
    <3>2. a \in [Handle -> Nat] /\ \A v \in Handle \ {w} : a[v] = context[c].array[v]
      BY <2>1, <3>1
    <3> HIDE DEF a
    <3>3. context'[c] = [context[c] EXCEPT !.array = a]
      BY <1>2, <2>2 DEF a
    <3> HIDE DEF w
    <3> QED
      BY <2>1, <3>2, <3>3
  <2>3. CASE ~takes(c)
    <3>1. context'[c] = context[c]
      BY <1>2, <2>3
    <3> QED
      BY <2>1, <3>1
  <2> QED
    BY <2>2, <2>3
<1>4. context' \in [Contexts -> R]
  <2> HIDE DEF R, takes, less
  <2> QED
    BY <1>2, <1>3
<1> QED
  BY <1>1, <1>3, <1>4 DEF SameContexts

LEMMA RemoveWellKnownInv ==
  ASSUME Inv, NEW t \in Threads, RemoveWellKnown(t) PROVE Inv'
<1> DEFINE r == [call[t] EXCEPT !.pc = "release"]
<1>1. /\ call[t].pc = "remove_well_known" /\ call[t].pc \in Holding /\ Goto(t, "release")
      /\ UNCHANGED <<tableVars, contextID>>
  BY DEF RemoveWellKnown, Holding
<1>2. Moves(t, r)
  BY <1>1, GotoMoves DEF Inv
<1>3. call[t] \in Call /\ Bound(call[t])
  BY DEF Inv, TypeOK, Table
<1>4. r.pc = "release" /\ r.entry = call[t].entry /\ r.wk = call[t].wk
  BY <1>3 DEF Call
<1> HIDE DEF r
<1>5. Bound(r) /\ r.pc \in Holding
  BY <1>1, <1>3, <1>4 DEF Bound, Unbound, Holding
<1>6. Table'
  BY <1>1, <1>2, <1>4, <1>5, TableKept
<1>7. SameContexts /\ TypeOK'
  BY <1>1, <1>2, ArraysShrink, MovesType DEF Inv, TypeOK, TableTypeOK, tableVars
<1>8. Served'
  BY <1>1, <1>7, GotoServes
<1> QED
  BY <1>6, <1>7, <1>8 DEF Inv

LEMMA ReleaseInv ==
  ASSUME Inv, NEW t \in Threads, ReleaseWellKnownMap(t) PROVE Inv'
<1>0. PICK e \in Entry : e = call[t].entry
  BY HoldingHolds DEF ReleaseWellKnownMap, Holding
<1> DEFINE r == Returned(t)
<1>1. /\ call[t].pc = "release" /\ call[t].pc \in Holding /\ Return(t)
      /\ ReleaseEntry(e) /\ UNCHANGED <<contextID, context>>
  BY <1>0 DEF ReleaseWellKnownMap, Holding
<1>2. e = call[t].entry /\ t \in Holders(e) /\ entry[e].allocated
  BY <1>0, <1>1, HoldingHolds
<1>3. Moves(t, r) /\ r.pc \in {"idle", "drain"} /\ r.entry = NoEntry
  BY <1>1, ReturnMoves DEF Inv
<1> HIDE DEF r
<1>4. call'[t] = r /\ \A u \in Threads \ {t} : call'[u] = call[u]
  BY <1>3, MovesType DEF Inv
<1>5. \A d \in Entry : Holders(d)' = Holders(d) \ {t}
  BY <1>3, HoldersChange, HashTableAssumption DEF Inv
<1>6. \A d \in Entry \ {e} : Holders(d)' = Holders(d)
  <2>1. \A d : t \in Holders(d) => d = e
    BY <1>2 DEF Holders
  <2> QED
    BY <1>5, <2>1
<1>7. /\ IsFiniteSet(Holders(e)) /\ Cardinality(Holders(e)) \in Nat
      /\ Cardinality(Holders(e)') \in Nat
      /\ Cardinality(Holders(e)) = Cardinality(Holders(e)') + 1
  <2>1. IsFiniteSet(Holders(e)) /\ Cardinality(Holders(e)) \in Nat
    BY HoldersFinite
  <2>2. IsFiniteSet(Holders(e) \ {t}) /\ Cardinality(Holders(e) \ {t}) = Cardinality(Holders(e)) - 1
    BY <1>2, <2>1, FS_RemoveElement
  <2>3. Cardinality(Holders(e) \ {t}) \in Nat
    BY <2>2, FS_CardinalityType
  <2>4. Holders(e)' = Holders(e) \ {t}
    BY <1>5
  <2>5. Cardinality(Holders(e)') = Cardinality(Holders(e)) - 1
    BY <2>2, <2>4
  <2>6. Cardinality(Holders(e)') \in Nat
    BY <2>3, <2>4
  <2> QED
    BY <2>1, <2>5, <2>6
<1>8. entry[e].refCount = Cardinality(Holders(e)') + 1 + Link(e) /\ Link(e) \in Nat
  BY <1>2, <1>7 DEF Inv, Table, Counted, Link
<1>9. Bound(call[t])'
  BY <1>3, <1>4 DEF Bound, Unbound, Holding
<1>10. CASE entry[e].refCount = 1
  <2>1. Cardinality(Holders(e)') = 0 /\ Link(e) = 0
    BY <1>7, <1>8, <1>10
  <2>2. Holders(e)' = {} /\ e \notin linked
    <3>1. IsFiniteSet(Holders(e)')
      BY <1>2, <1>5, <1>7, FS_RemoveElement
    <3> QED
      BY <2>1, <3>1, FS_EmptySet DEF Link
  <2>3. linked' = linked /\ ~mistaken'
    BY <1>1, <1>2, <1>10, <2>2, UnderIsItself, ZenonT(60) DEF ReleaseEntry
  <2>4. entry' = [entry EXCEPT ![e] = NoMemory]
    BY <1>1, <1>10 DEF ReleaseEntry
  <2>5. /\ entry'[e] = NoMemory /\ \A d \in Entry \ {e} : entry'[d] = entry[d]
        /\ TableTypeOK'
    <3> DEFINE R == [allocated : BOOLEAN, handle : Handle \cup {NoHandle}, refCount : Nat]
    <3>1. NoMemory \in R /\ entry \in [Entry -> R]
      BY DEF NoMemory, Inv, TypeOK, TableTypeOK
    <3>2. linked' \in SUBSET Entry /\ mistaken' \in BOOLEAN
      <4>1. mistaken' \in BOOLEAN
        BY <1>1, <1>10 DEF ReleaseEntry, Mistakes
      <4> QED
        BY <2>3, <4>1 DEF Inv, TypeOK, TableTypeOK
    <3>3. entry' \in [Entry -> R] /\ entry'[e] = NoMemory
          /\ \A d \in Entry \ {e} : entry'[d] = entry[d]
      <4> HIDE DEF R
      <4> QED
        BY <2>4, <3>1
    <3> QED
      BY <3>2, <3>3 DEF TableTypeOK
  <2>6. Counted(e)'
    BY <2>1, <2>2, <2>3, <2>5 DEF Counted, Link, NoMemory
  <2>7. ASSUME NEW d \in Entry \ {e} PROVE Counted(d)'
    BY <1>6, <2>3, <2>5 DEF Inv, Table, Counted, Link
  <2>8. ASSUME NEW u \in Threads \ {t} PROVE Bound(call[u])'
    <3>1. Bound(call[u]) /\ call'[u] = call[u]
      BY <1>4 DEF Inv, Table
    <3>2. u \notin Holders(e)
      BY <1>5, <2>2
    <3>3. call[u].pc \in Holding => call[u].entry # e
      BY <3>2, HoldingHolds
    <3>4. call[u].pc \in Holding => entry'[call[u].entry] = entry[call[u].entry]
      BY <2>5, <3>1, <3>3 DEF Bound
    <3> QED
      BY <2>3, <3>1, <3>4 DEF Bound
  <2>9. HandlesDiffer'
    BY <2>5 DEF Inv, Table, HandlesDiffer, NoMemory
  <2>10. TypeOK'
    BY <1>1, <1>3, <2>5, MovesType DEF Inv, TypeOK
  <2> QED
    BY <1>1, <1>9, <2>3, <2>6, <2>7, <2>8, <2>9, <2>10, ReturnServes DEF Inv, Table
<1>11. CASE entry[e].refCount # 1
  <2>1. linked' = linked /\ mistaken' = mistaken
    BY <1>1, <1>11 DEF ReleaseEntry
  <2>2. entry' = [entry EXCEPT ![e] = [@ EXCEPT !.refCount = entry[e].refCount - 1]]
    BY <1>1, <1>11 DEF ReleaseEntry
  <2>3. entry[e].refCount - 1 = Cardinality(Holders(e)') + Link(e)
        /\ entry[e].refCount - 1 \in Nat \ {0}
    BY <1>7, <1>8, <1>11
  <2>4. /\ entry'[e].allocated = entry[e].allocated /\ entry'[e].handle = entry[e].handle
        /\ entry'[e].refCount = entry[e].refCount - 1
        /\ \A d \in Entry \ {e} : entry'[d] = entry[d]
        /\ TableTypeOK'
    BY <1>2, <2>1, <2>2, <2>3 DEF Inv, TypeOK, TableTypeOK
  <2>5. e \in linked \/ Holders(e)' # {}
    <3>1. Cardinality(Holders(e)') # 0 \/ Link(e) # 0
      BY <1>7, <1>8, <2>3
    <3> QED
      BY <3>1, FS_EmptySet DEF Link
  <2>6. Counted(e)'
    BY <1>2, <2>1, <2>3, <2>4, <2>5 DEF Inv, Table, Counted, Link
  <2>7. ASSUME NEW d \in Entry \ {e} PROVE Counted(d)'
    BY <1>6, <2>1, <2>4 DEF Inv, Table, Counted, Link
  <2>8. \A d \in Entry : entry'[d].allocated = entry[d].allocated
                          /\ entry'[d].handle = entry[d].handle
    BY <2>4
  <2>9. ASSUME NEW u \in Threads \ {t} PROVE Bound(call[u])'
    BY <1>4, <2>1, <2>8 DEF Inv, Table, Bound
  <2>10. HandlesDiffer'
    BY <2>8 DEF Inv, Table, HandlesDiffer
  <2>11. TypeOK'
    BY <1>1, <1>3, <2>4, MovesType DEF Inv, TypeOK
  <2> QED
    BY <1>1, <1>2, <1>9, <2>1, <2>6, <2>7, <2>9, <2>10, <2>11, ReturnServes DEF Inv, Table
<1> QED
  BY <1>10, <1>11

-----------------------------------------------------------------------------
(* The invariant holds.                                                    *)

LEMMA InitInv == Init => Inv
<1> SUFFICES ASSUME Init PROVE Inv
  OBVIOUS
<1>1. TypeOK
  <2>1. NoMemory \in [allocated : BOOLEAN, handle : Handle \cup {NoHandle}, refCount : Nat]
    BY DEF NoMemory
  <2>2. TableTypeOK
    BY <2>1 DEF Init, TableInit, TableTypeOK
  <2>3. context \in [Contexts -> [state : States, cid : Ids \cup {NoId},
                                  array : [Handle -> Nat]]]
    BY DEF Init, States, EmptyArray
  <2> QED
    BY <2>2, <2>3, IdleType DEF Init, TypeOK
<1>2. ASSUME NEW e \in Entry PROVE Counted(e)
  <2>1. Holders(e) = {}
    BY IdleType, HashTableAssumption DEF Init, Holders
  <2> QED
    BY <2>1, FS_EmptySet DEF Init, TableInit, NoMemory, Counted, Link
<1>3. Table
  BY <1>2, IdleType DEF Init, TableInit, NoMemory, Table, Bound, Unbound, Holding, HandlesDiffer
<1>4. Served
  BY IdleType, WellKnownMapAssumption DEF Init, Served, Serves, DrainsAlone, IdsDiffer
<1> QED
  BY <1>1, <1>3, <1>4 DEF Inv

LEMMA NextInv == ASSUME Apart, Inv, [Next]_vars PROVE Inv'
<1>1. ASSUME NEW c \in Contexts, InitContext(c) PROVE Inv'
  BY <1>1, InitContextInv
<1>2. ASSUME NEW t \in Threads, NEW c \in Contexts,
             \/ CloseContext(t, c)
             \/ \E w \in Handle :
                  \/ \E e \in Entry : Request(t, c, w, e)
                  \/ Remove(t, c, w)
                  \/ Lookup(t, c, w)
      PROVE  Inv'
  BY <1>2, CloseContextInv, RequestInv, RemoveInv, LookupInv
<1>3. ASSUME NEW t \in Threads,
             \/ Drain(t) \/ AddWellKnown(t)
             \/ GetWellKnownMap(t) \/ CheckOwner(t) \/ RemoveMapping(t)
             \/ RemoveWellKnown(t) \/ ReleaseWellKnownMap(t)
      PROVE  Inv'
  BY <1>3, DrainInv, AddWellKnownInv, GetWellKnownMapInv, CheckOwnerInv, RemoveMappingInv,
     RemoveWellKnownInv, ReleaseInv
<1>4. CASE UNCHANGED vars
  <2>1. UNCHANGED <<tableVars, call>> /\ context' = context /\ contextID' = contextID
    BY <1>4 DEF vars
  <2>2. TypeOK'
    BY <2>1 DEF Inv, TypeOK, TableTypeOK, tableVars
  <2>3. Served'
    BY <2>1 DEF Inv, Served, Serves, DrainsAlone, IdsDiffer
  <2> QED
    BY <2>1, <2>2, <2>3, TableSame DEF Inv
<1> QED
  BY <1>1, <1>2, <1>3, <1>4 DEF Next

LEMMA InvHolds == ASSUME Apart PROVE Spec => []Inv
<1>1. Inv /\ [Next]_vars => Inv'
  BY NextInv
<1> QED
  BY <1>1, InitInv, PTL DEF Spec

-----------------------------------------------------------------------------
\* The table, the contexts and the calls keep their types.
THEOREM TypeCorrect == Apart => (Spec => []TypeOK)
<1> SUFFICES ASSUME Apart PROVE Spec => []TypeOK
  OBVIOUS
<1>1. Inv => TypeOK
  BY DEF Inv
<1>2. Spec => []Inv
  BY InvHolds
<1> QED
  BY <1>1, <1>2, PTL

\* A mapping is in memory while it is on the table or a dispatch or a removal
\* has a reference to it, and its count says how many they are.
THEOREM RefCounts == Apart => (Spec => []RefCountIsHolders)
<1> SUFFICES ASSUME Apart PROVE Spec => []RefCountIsHolders
  OBVIOUS
<1>1. Inv => RefCountIsHolders
  BY DEF Inv, Table, Counted, Link, RefCountIsHolders
<1>2. Spec => []Inv
  BY InvHolds
<1> QED
  BY <1>1, <1>2, PTL

\* What is taken off the table is the entry that was to be, though it is looked
\* for by its handle: ASSERT(cur == entry) of HashTableUnlinkEntry holds.
THEOREM EntriesUnlinkThemselves == Apart => (Spec => []UnlinksItsEntry)
<1> SUFFICES ASSUME Apart PROVE Spec => []UnlinksItsEntry
  OBVIOUS
<1>1. Inv => UnlinksItsEntry
  BY DEF Inv, Table, UnlinksItsEntry
<1>2. Spec => []Inv
  BY InvHolds
<1> QED
  BY <1>1, <1>2, PTL

-----------------------------------------------------------------------------
(***************************************************************************)
(* Mappings are recorded, so that whoever frees a context takes them down. *)
(* With Inv the property is inductive: a call that has to record or remove *)
(* a mapping works on the only entry with that handle.                     *)
(***************************************************************************)
\* Context c will take the mapping e down; call t is about to.
InArray(e, c) ==
  /\ context[c].cid = contextID[e]
  /\ context[c].state \in {"open", "closing"}
  /\ context[c].array[entry[e].handle] > 0
InHand(e, t) ==
  /\ call[t].wk = entry[e].handle
  /\ \/ call[t].pc = "add_well_known"
     \/ /\ call[t].pc \in {"get", "check", "remove"}
        /\ context[call[t].ctx].state = "closing"
  /\ context[call[t].ctx].cid = contextID[e]
Recorded(e) == (\E c \in Contexts : InArray(e, c)) \/ (\E t \in Threads : InHand(e, t))

LEMMA RecordedIs == MappingsAreRecorded <=> \A e \in linked : Recorded(e)
  BY DEF MappingsAreRecorded, Recorded, InArray, InHand

\* What a step leaves alone of a mapping, of a context and of a call.
SameEntry(e) == entry'[e].handle = entry[e].handle /\ contextID'[e] = contextID[e]

LEMMA InArrayKept ==
  ASSUME NEW e, NEW c, InArray(e, c), SameEntry(e),
         context'[c].cid = context[c].cid, context'[c].state \in {"open", "closing"},
         context'[c].array[entry[e].handle] > 0
  PROVE  InArray(e, c)'
  BY DEF InArray, SameEntry

LEMMA InHandKept ==
  ASSUME NEW e, NEW t, InHand(e, t), SameEntry(e), call'[t] = call[t],
         context'[call[t].ctx].cid = context[call[t].ctx].cid,
         context'[call[t].ctx].state = context[call[t].ctx].state
  PROVE  InHand(e, t)'
  BY DEF InHand, SameEntry

\* A call in whose hands a mapping is belongs to a context.
LEMMA InHandServed ==
  ASSUME Inv, NEW e, NEW t \in Threads, InHand(e, t)
  PROVE  /\ call[t].ctx \in Contexts
         /\ context[call[t].ctx].state \in {"open", "closing"}
         /\ call[t].pc \in {"add_well_known", "get", "check", "remove"}
  BY DEF Inv, Served, Serves, InHand

\* Where no array shrinks, the mappings in the hands of others than t stay
\* recorded, and so do those in arrays.
LEMMA OthersKept ==
  ASSUME Inv, NEW t \in Threads, \A u \in Threads \ {t} : call'[u] = call[u],
         SameContexts, NEW e \in linked, Recorded(e), SameEntry(e),
         \A c \in Contexts : context[c].array[entry[e].handle] > 0 =>
                              context'[c].array[entry[e].handle] > 0,
         InHand(e, t) => Recorded(e)'
  PROVE  Recorded(e)'
<1>1. ASSUME NEW c \in Contexts, InArray(e, c) PROVE Recorded(e)'
  <2>1. InArray(e, c)'
    BY <1>1, InArrayKept DEF SameContexts, InArray
  <2> QED
    BY <2>1 DEF Recorded
<1>2. ASSUME NEW u \in Threads \ {t}, InHand(e, u) PROVE Recorded(e)'
  <2>1. InHand(e, u)'
    BY <1>2, InHandServed, InHandKept DEF SameContexts
  <2> QED
    BY <2>1 DEF Recorded
<1> QED
  BY <1>1, <1>2 DEF Recorded

\* Two entries in memory with one handle are the same; the handle is that of
\* the call which holds it.
LEMMA HeldIs ==
  ASSUME Inv, NEW t \in Threads, call[t].pc \in Holding,
         NEW e \in linked, call[t].wk = entry[e].handle
  PROVE  call[t].entry = e
<1>1. e \in Entry /\ entry[e].allocated
  BY DEF Inv, TypeOK, TableTypeOK, Table, Counted
<1> QED
  BY <1>1, HoldingHolds DEF Inv, Table, HandlesDiffer

\* A linked entry is not that of a call which starts.
LEMMA IdleHasNone ==
  ASSUME Inv, NEW t \in Threads, call[t] = Idle, NEW e \in linked
  PROVE  ~InHand(e, t)
<1>1. e \in Entry /\ entry[e].handle \in Handle
  BY DEF Inv, TypeOK, TableTypeOK, Table, Counted
<1> QED
  BY <1>1, IdleType DEF InHand

\* Contexts come and go: entries stay as they are.
LEMMA InitContextRecords ==
  ASSUME Inv, NEW c \in Contexts, InitContext(c), NEW e \in linked, Recorded(e)
  PROVE  Recorded(e)'
<1>1. /\ context[c].state = "unused"
      /\ \A d \in Contexts \ {c} : context'[d] = context[d]
      /\ SameEntry(e) /\ call' = call
  BY DEF InitContext, Inv, TypeOK, SameEntry, tableVars
<1>2. ASSUME NEW d \in Contexts, InArray(e, d) PROVE InArray(e, d)'
  BY <1>1, <1>2, InArrayKept DEF InArray
<1>3. ASSUME NEW u \in Threads, InHand(e, u) PROVE InHand(e, u)'
  BY <1>1, <1>3, InHandServed, InHandKept
<1> QED
  BY <1>2, <1>3 DEF Recorded

LEMMA CloseContextRecords ==
  ASSUME Inv, NEW t \in Threads, NEW c \in Contexts, CloseContext(t, c),
         NEW e \in linked, Recorded(e)
  PROVE  Recorded(e)'
<1>1. /\ call[t] = Idle /\ \A u \in Threads : call[u].ctx # c
      /\ context' = [context EXCEPT ![c].state = "closing"]
      /\ SameEntry(e)
      /\ \A u \in Threads \ {t} : call'[u] = call[u]
  BY DEF CloseContext, Inv, TypeOK, SameEntry, tableVars
<1>2. /\ \A d \in Contexts \ {c} : context'[d] = context[d]
      /\ context'[c].state = "closing" /\ context'[c].cid = context[c].cid
      /\ context'[c].array = context[c].array
  BY <1>1 DEF Inv, TypeOK
<1>3. ASSUME NEW d \in Contexts, InArray(e, d) PROVE InArray(e, d)'
  BY <1>1, <1>2, <1>3, InArrayKept DEF InArray
<1>4. ASSUME NEW u \in Threads, InHand(e, u) PROVE InHand(e, u)'
  <2>1. u # t
    BY <1>1, <1>4, IdleHasNone
  <2> QED
    BY <1>1, <1>2, <1>4, <2>1, InHandServed, InHandKept
<1> QED
  BY <1>3, <1>4 DEF Recorded

\* The drain takes an id in hand, or leaves an array that has none.
LEMMA DrainRecords ==
  ASSUME Inv, NEW t \in Threads, Drain(t), NEW e \in linked, Recorded(e)
  PROVE  Recorded(e)'
<1> DEFINE c == call[t].ctx
           h == entry[e].handle
<1>1. /\ call[t].pc = "drain" /\ SameEntry(e)
      /\ c \in Contexts /\ context[c].state = "closing" /\ h \in Handle
      /\ e \in Entry
  BY DEF Drain, Inv, TypeOK, TableTypeOK, Table, Counted, Served, Serves, SameEntry, tableVars
<1>2. call' = [call EXCEPT ![t] = call'[t]] /\ \A u \in Threads \ {t} : call'[u] = call[u]
  BY DEF Drain, Inv, TypeOK
<1>3. \A u \in Threads \ {t} : call[u].ctx # c
  BY <1>1 DEF Inv, Served, DrainsAlone
<1>4. \A d \in Contexts \ {c} : context'[d] = context[d]
  BY DEF Drain, Inv, TypeOK
<1>5. ASSUME NEW u \in Threads, InHand(e, u) PROVE InHand(e, u)'
  <2>1. u # t
    BY <1>1, <1>5 DEF InHand
  <2> QED
    BY <1>1, <1>2, <1>3, <1>4, <1>5, <2>1, InHandServed, InHandKept
<1>6. ASSUME NEW d \in Contexts \ {c}, InArray(e, d) PROVE InArray(e, d)'
  BY <1>1, <1>4, <1>6, InArrayKept DEF InArray
<1>7. ASSUME InArray(e, c) PROVE Recorded(e)'
  <2>1. context[c].array[h] > 0 /\ context[c].cid = contextID[e]
    BY <1>7 DEF InArray
  <2>2. context[c].array # EmptyArray
    BY <1>1, <2>1 DEF EmptyArray
  <2>3. PICK w \in Handle :
          /\ context[c].array[w] > 0
          /\ context' = [context EXCEPT ![c].array[w] = @ - 1]
          /\ call' = [call EXCEPT ![t].pc = "get", ![t].wk = w]
    BY <2>2 DEF Drain
  <2>4. context[c].array[w] - 1 \in Nat
    BY <1>1, <2>3 DEF Inv, TypeOK
  <2>5. SameContexts /\ \A v \in Handle \ {w} : context'[c].array[v] = context[c].array[v]
    <3>1. PICK d \in Contexts : d = c
      BY <1>1
    <3>2. PICK n \in Nat : n = context[d].array[w] - 1
      BY <2>4, <3>1
    <3>3. context' = [context EXCEPT ![d].array[w] = n]
      BY <2>3, <3>1, <3>2
    <3>4. SameContexts /\ Written(d, w, n)
      BY <3>3, ArrayWritten DEF Inv
    <3> QED
      BY <3>1, <3>4 DEF Written
  <2>6. CASE h = w
    <3>1. call'[t].pc = "get" /\ call'[t].wk = h /\ call'[t].ctx = c
      BY <2>3, <2>6 DEF Inv, TypeOK, Call
    <3>2. InHand(e, t)'
      BY <1>1, <2>1, <2>5, <3>1 DEF InHand, SameEntry, SameContexts
    <3> QED
      BY <3>2 DEF Recorded
  <2>7. CASE h # w
    <3>1. context'[c].array[h] > 0 /\ context'[c].state = "closing"
          /\ context'[c].cid = contextID[e]
      BY <1>1, <2>1, <2>5, <2>7 DEF SameContexts
    <3>2. \E d \in Contexts : InArray(e, d)'
      BY <1>1, <3>1 DEF InArray, SameEntry
    <3> QED
      BY <3>2 DEF Recorded
  <2> QED
    BY <2>6, <2>7
<1> QED
  BY <1>5, <1>6, <1>7 DEF Recorded

\* A new mapping is in the hands of the call that requested it.
LEMMA RequestRecords ==
  ASSUME Inv, NEW t \in Threads, NEW c \in Contexts, NEW w \in Handle,
         NEW x \in Entry, Request(t, c, w, x), NEW e \in linked',
         e \in linked => Recorded(e)
  PROVE  Recorded(e)'
<1>1. /\ call[t] = Idle /\ context' = context /\ ~entry[x].allocated
      /\ linked' = linked \cup {x}
      /\ contextID' = [contextID EXCEPT ![x] = context[c].cid]
      /\ entry' = [entry EXCEPT ![x] = [allocated |-> TRUE, handle |-> w, refCount |-> 1]]
      /\ call' = [call EXCEPT ![t] =
                    [pc |-> "add_well_known", ctx |-> c, wk |-> w, entry |-> x]]
  BY DEF Request, AddEntry
<1>2. /\ entry'[x].handle = w /\ contextID'[x] = context[c].cid
      /\ \A d \in Entry \ {x} : entry'[d] = entry[d] /\ contextID'[d] = contextID[d]
      /\ call'[t].pc = "add_well_known" /\ call'[t].wk = w /\ call'[t].ctx = c
      /\ \A u \in Threads \ {t} : call'[u] = call[u]
  BY <1>1 DEF Inv, TypeOK, TableTypeOK
<1>3. CASE e = x
  <2>1. InHand(e, t)'
    BY <1>1, <1>2, <1>3 DEF InHand
  <2> QED
    BY <2>1 DEF Recorded
<1>4. CASE e # x
  <2>1. e \in linked /\ Recorded(e) /\ SameEntry(e)
    BY <1>1, <1>2, <1>4 DEF SameEntry, Inv, TypeOK, TableTypeOK
  <2>2. SameContexts /\ ~InHand(e, t)
    BY <1>1, <2>1, IdleHasNone DEF SameContexts
  <2> QED
    BY <1>1, <1>2, <2>1, <2>2, OthersKept
<1> QED
  BY <1>3, <1>4

\* Where arrays can always grow, what was requested is recorded.
LEMMA AddWellKnownRecords ==
  ASSUME ~AppendMayFail, Inv, NEW t \in Threads, AddWellKnown(t), NEW e \in linked, Recorded(e)
  PROVE  Recorded(e)'
<1> DEFINE w == call[t].wk
<1>1. /\ call[t].pc = "add_well_known" /\ SameEntry(e) /\ w \in Handle
      /\ \A u \in Threads \ {t} : call'[u] = call[u]
  BY DEF AddWellKnown, Inv, TypeOK, Table, Bound, SameEntry, tableVars
<1>2. PICK c \in Contexts :
        /\ context[c].state = "open" /\ context[c].cid = context[call[t].ctx].cid
        /\ context' = [context EXCEPT ![c].array[call[t].wk] = @ + 1]
  BY DEF AddWellKnown, Listed
<1>3. context[c].array[w] + 1 \in Nat /\ context[c].array[w] + 1 > 0
  BY <1>1 DEF Inv, TypeOK
<1>4. /\ SameContexts /\ context'[c].array[w] = context[c].array[w] + 1
      /\ \A d \in Contexts, v \in Handle :
           d # c \/ v # w => context'[d].array[v] = context[d].array[v]
  <2>1. PICK v \in Handle : v = w
    BY <1>1
  <2>2. PICK n \in Nat : n = context[c].array[v] + 1
    BY <1>3, <2>1
  <2>3. context' = [context EXCEPT ![c].array[v] = n]
    BY <1>2, <2>1, <2>2
  <2>4. SameContexts /\ Written(c, v, n)
    BY <2>3, ArrayWritten DEF Inv
  <2> QED
    BY <2>1, <2>2, <2>4 DEF Written
<1>5. entry[e].handle \in Handle
  BY DEF Inv, TypeOK, TableTypeOK, Table, Counted
<1>6. \A d \in Contexts : context[d].array[entry[e].handle] > 0 =>
                           context'[d].array[entry[e].handle] > 0
  BY <1>3, <1>4, <1>5
<1>7. InHand(e, t) => Recorded(e)'
  <2> SUFFICES ASSUME InHand(e, t) PROVE InArray(e, c)'
    BY DEF Recorded
  <2>1. w = entry[e].handle /\ context[c].cid = contextID[e]
    BY <1>2 DEF InHand
  <2> QED
    BY <1>1, <1>2, <1>3, <1>4, <2>1 DEF InArray, SameEntry, SameContexts
<1> QED
  BY <1>1, <1>4, <1>6, <1>7, OthersKept

\* What is taken from an array is not on the table any more.
LEMMA RemoveWellKnownRecords ==
  ASSUME Inv, NEW t \in Threads, RemoveWellKnown(t), NEW e \in linked, Recorded(e)
  PROVE  Recorded(e)'
<1>1. /\ call[t].pc = "remove_well_known" /\ call[t].pc \in Holding /\ SameEntry(e)
      /\ \A u \in Threads \ {t} : call'[u] = call[u]
  BY DEF RemoveWellKnown, Goto, Inv, TypeOK, SameEntry, tableVars, Holding
<1>2. call[t].wk # entry[e].handle
  BY <1>1, HeldIs DEF Inv, Table, Bound
<1>3. entry[e].handle \in Handle
  BY DEF Inv, TypeOK, TableTypeOK, Table, Counted
<1>4. /\ SameContexts
      /\ \A c \in Contexts : context'[c].array[entry[e].handle] = context[c].array[entry[e].handle]
  BY <1>2, <1>3, ArraysShrink
<1> QED
  BY <1>1, <1>2, <1>4, OthersKept DEF InHand

\* The other steps of a call leave contexts and arrays alone.
LEMMA CallRecords ==
  ASSUME Inv, NEW t \in Threads, context' = context,
         \A u \in Threads \ {t} : call'[u] = call[u],
         NEW e \in linked, Recorded(e), SameEntry(e), InHand(e, t) => InHand(e, t)'
  PROVE  Recorded(e)'
<1>1. SameContexts
  BY DEF SameContexts
<1>2. InHand(e, t) => Recorded(e)'
  BY DEF Recorded
<1> QED
  BY <1>1, <1>2, OthersKept

LEMMA RemovalRecords ==
  ASSUME Apart, Inv, Inv', NEW t \in Threads,
         \/ \E c \in Contexts, w \in Handle : Remove(t, c, w) \/ Lookup(t, c, w)
         \/ GetWellKnownMap(t) \/ CheckOwner(t) \/ RemoveMapping(t) \/ ReleaseWellKnownMap(t),
         NEW e \in linked, e \in linked', Recorded(e)
  PROVE  Recorded(e)'
<1>0. /\ context' = context /\ contextID' = contextID
      /\ \A u \in Threads \ {t} : call'[u] = call[u]
  BY DEF Remove, Lookup, GetWellKnownMap, CheckOwner, RemoveMapping, ReleaseWellKnownMap,
     Return, Goto, Inv, TypeOK
<1>1. e \in Entry /\ entry[e].allocated /\ entry'[e].allocated
  BY DEF Inv, TypeOK, TableTypeOK, Table, Counted
<1>2. SameEntry(e)
  <2> SUFFICES entry'[e].handle = entry[e].handle
    BY <1>0 DEF SameEntry
  <2>1. CASE UNCHANGED tableVars
    BY <2>1 DEF tableVars
  <2>2. ASSUME NEW x \in Entry, NEW w, GetEntry(x, w) PROVE entry'[e].handle = entry[e].handle
    BY <1>1, <2>2 DEF GetEntry, Inv, TypeOK, TableTypeOK
  <2>3. CASE RemoveMapping(t)
    BY <1>1, <2>3 DEF RemoveMapping, RemoveEntry, Inv, TypeOK, TableTypeOK
  <2>4. CASE ReleaseWellKnownMap(t)
    <3> DEFINE x == call[t].entry
    <3>1. ReleaseEntry(x)
      BY <2>4 DEF ReleaseWellKnownMap
    <3>2. CASE entry[x].refCount = 1
      <4>1. entry' = [entry EXCEPT ![x] = NoMemory]
        BY <3>1, <3>2 DEF ReleaseEntry
      <4>2. e # x
        BY <1>1, <4>1 DEF NoMemory, Inv, TypeOK, TableTypeOK
      <4> QED
        BY <1>1, <4>1, <4>2 DEF Inv, TypeOK, TableTypeOK
    <3>3. CASE entry[x].refCount # 1
      <4>1. entry' = [entry EXCEPT ![x] = [@ EXCEPT !.refCount = entry[x].refCount - 1]]
        BY <3>1, <3>3 DEF ReleaseEntry
      <4> QED
        BY <1>1, <4>1 DEF Inv, TypeOK, TableTypeOK
    <3> QED
      BY <3>2, <3>3
  <2> QED
    BY <2>1, <2>2, <2>3, <2>4 DEF Remove, Lookup, GetWellKnownMap, CheckOwner
<1>3. InHand(e, t) => InHand(e, t)'
  <2> SUFFICES ASSUME InHand(e, t) PROVE InHand(e, t)'
    OBVIOUS
  <2>0. call[t] # Idle /\ call[t].pc \notin {"release", "idle"} /\ call[t] \in Call
        /\ call[t].wk = entry[e].handle
        /\ context[call[t].ctx].cid = contextID[e]
    BY IdleHasNone DEF InHand, Inv, TypeOK
  <2>1. CASE GetWellKnownMap(t)
    <3>1. call[t].pc = "get" /\ context[call[t].ctx].state = "closing"
      BY <2>1 DEF GetWellKnownMap, InHand
    <3>2. EntryExists(call[t].wk)
      BY <2>0 DEF EntryExists, Under
    <3>3. PICK x \in Entry : call' = [call EXCEPT ![t].pc = "check", ![t].entry = x]
      BY <2>1, <3>2 DEF GetWellKnownMap
    <3>4. call'[t].pc = "check" /\ call'[t].wk = call[t].wk /\ call'[t].ctx = call[t].ctx
      BY <2>0, <3>3 DEF Call, Inv, TypeOK
    <3> QED
      BY <1>0, <1>2, <2>0, <3>1, <3>4 DEF InHand, SameEntry
  <2>2. CASE CheckOwner(t)
    <3>1. call[t].pc = "check" /\ context[call[t].ctx].state = "closing"
      BY <2>2 DEF CheckOwner, InHand
    <3>2. call[t].entry = e
      BY <2>0, <3>1, HeldIs DEF Holding
    <3>3. Goto(t, "remove")
      BY <2>0, <2>2, <3>2 DEF CheckOwner
    <3>4. call'[t].pc = "remove" /\ call'[t].wk = call[t].wk /\ call'[t].ctx = call[t].ctx
      BY <2>0, <3>3 DEF Goto, Call, Inv, TypeOK
    <3> QED
      BY <1>0, <1>2, <2>0, <3>1, <3>4 DEF InHand, SameEntry
  <2>3. CASE RemoveMapping(t)
    <3>1. call[t].entry = e
      BY <2>0, <2>3, HeldIs DEF RemoveMapping, Holding
    <3>2. e \notin linked'
      BY <1>1, <2>3, <3>1, UnderIsItself DEF RemoveMapping, RemoveEntry
    <3> QED
      BY <3>2
  <2> QED
    BY <2>0, <2>1, <2>2, <2>3 DEF Remove, Lookup, ReleaseWellKnownMap
<1> QED
  BY <1>0, <1>2, <1>3, CallRecords

\* Only a request makes a mapping.
LEMMA NewlyLinked ==
  ASSUME Inv, NEW t \in Threads,
         \/ Drain(t) \/ AddWellKnown(t) \/ GetWellKnownMap(t) \/ CheckOwner(t)
         \/ RemoveMapping(t) \/ RemoveWellKnown(t) \/ ReleaseWellKnownMap(t)
         \/ \E c \in Contexts : \/ CloseContext(t, c)
                                \/ \E w \in Handle : Remove(t, c, w) \/ Lookup(t, c, w)
  PROVE  linked' \subseteq linked
  BY DEF Drain, AddWellKnown, GetWellKnownMap, CheckOwner, RemoveMapping, RemoveWellKnown,
     ReleaseWellKnownMap, CloseContext, Remove, Lookup, GetEntry, RemoveEntry, ReleaseEntry,
     Unlinked, tableVars

LEMMA NextRecords ==
  ASSUME Apart, ~AppendMayFail, Inv, Inv', MappingsAreRecorded, [Next]_vars
  PROVE  MappingsAreRecorded'
<1> SUFFICES ASSUME NEW e \in linked' PROVE Recorded(e)'
  <2>1. (\A e \in linked : Recorded(e))' => MappingsAreRecorded'
    BY DEF MappingsAreRecorded, Recorded, InArray, InHand
  <2> QED
    BY <2>1
<1>0. e \in linked => Recorded(e)
  BY RecordedIs
<1>1. ASSUME NEW c \in Contexts, InitContext(c) PROVE Recorded(e)'
  <2>1. e \in linked
    BY <1>1 DEF InitContext, tableVars
  <2> QED
    BY <1>0, <1>1, <2>1, InitContextRecords
<1>2. ASSUME NEW t \in Threads, NEW c \in Contexts, NEW w \in Handle, NEW x \in Entry,
             Request(t, c, w, x)
      PROVE  Recorded(e)'
  BY <1>0, <1>2, RequestRecords
<1>3. ASSUME NEW t \in Threads,
             \/ Drain(t) \/ AddWellKnown(t) \/ GetWellKnownMap(t) \/ CheckOwner(t)
             \/ RemoveMapping(t) \/ RemoveWellKnown(t) \/ ReleaseWellKnownMap(t)
             \/ \E c \in Contexts : \/ CloseContext(t, c)
                                    \/ \E w \in Handle : Remove(t, c, w) \/ Lookup(t, c, w)
      PROVE  Recorded(e)'
  <2>1. e \in linked /\ Recorded(e)
    BY <1>0, <1>3, NewlyLinked
  <2> QED
    BY <1>3, <2>1, DrainRecords, AddWellKnownRecords, RemoveWellKnownRecords,
       CloseContextRecords, RemovalRecords
<1>4. CASE UNCHANGED vars
  BY <1>0, <1>4 DEF vars, tableVars, Recorded, InArray, InHand
<1> QED
  BY <1>1, <1>2, <1>3, <1>4 DEF Next

\* Where arrays can always grow, a context that is gone has left no mapping
\* behind, whichever removals overlap and whoever has its id by then.
THEOREM MappingsGoWithTheirContext ==
  Apart /\ ~AppendMayFail => (Spec => []MappingsAreRecorded)
<1> SUFFICES ASSUME Apart, ~AppendMayFail PROVE Spec => []MappingsAreRecorded
  OBVIOUS
<1>1. Init => MappingsAreRecorded
  BY DEF Init, TableInit, MappingsAreRecorded
<1>2. Inv /\ Inv' /\ MappingsAreRecorded /\ [Next]_vars => MappingsAreRecorded'
  BY NextRecords
<1>3. Spec => []Inv
  BY InvHolds
<1> QED
  BY <1>1, <1>2, <1>3, PTL DEF Spec
=============================================================================
