---------------------------- MODULE DaemonProofs ----------------------------
(***************************************************************************)
(* Proofs about the filter's process: Reload, inside it, for every number  *)
(* of connections and configuration handles, and Restart, around it, for   *)
(* every limit, rate and number of filters.                                *)
(*                                                                         *)
(* The inductive invariant of Reload, IInv, adds to the checked invariants *)
(* what a connection's place in the callbacks says about the handle it     *)
(* holds, and what the holder of conf_lock is doing.  That of Restart,     *)
(* ParentInv, says where the parent must be for a filter to be alive, and  *)
(* ties the parent's count of restarts, which each filter inherits, to the *)
(* number of filters forked.                                               *)
(***************************************************************************)
EXTENDS Reload, Restart, FiniteSetTheorems, TLAPS

\* Where a connection is tells whether it holds a handle; mlfi_connect() runs
\* with and without one, and cctx tells which.
PlaceOK(c) ==
    /\ conn[c].pc \in {"gone", "negotiate", "acquireN", "acquireC"}
       => conn[c].conf = NoConf /\ ~conn[c].priv
    /\ conn[c].pc \in {"check", "negotiated", "open", "closing"}
       => conn[c].conf # NoConf
    /\ conn[c].pc = "negotiated" => conn[c].priv
    /\ conn[c].pc = "connect" => (conn[c].priv <=> conn[c].conf # NoConf)

\* The holder of conf_lock between two steps is loading a handle, and knows
\* where to go on.
LockOK ==
    /\ lock = Nobody <=> new = NoConf
    /\ lock # Nobody => /\ conn[lock].pc \in {"negotiate", "connect"}
                        /\ conn[lock].back = After(lock)

FreedOK == \A f \in Confs : ~conf[f].live => conf[f].refcnt = 0

IInv ==
    /\ TypeOK /\ RefsCounted /\ NoUseAfterFree
    /\ (\A c \in Conns : PlaceOK(c)) /\ LockOK /\ FreedOK

-----------------------------------------------------------------------------
(* Holders.                                                                *)

LEMMA ConnsCount == IsFiniteSet(Conns) /\ Cardinality(Conns) \in Nat
BY ReloadAssumption, FS_CardinalityType

\* The connections that hold a handle are a finite set, no larger than Conns.
LEMMA HoldersFinite ==
    ASSUME NEW f
    PROVE  /\ IsFiniteSet(Holders(f))
           /\ Cardinality(Holders(f)) \in 0..Cardinality(Conns)
<1>1. Holders(f) \subseteq Conns BY DEF Holders
<1>2. IsFiniteSet(Conns) BY ReloadAssumption
<1>. QED BY <1>1, <1>2, FS_Subset, FS_CardinalityType

\* A connection that takes handle f adds one holder to f and to no other.
LEMMA HoldersTake ==
    ASSUME NEW c \in Conns, NEW f \in Confs,
           \A d \in Conns \ {c} : conn'[d].conf = conn[d].conf,
           conn[c].conf = NoConf, conn'[c].conf = f
    PROVE  /\ c \notin Holders(f) /\ Holders(f)' = Holders(f) \cup {c}
           /\ Cardinality(Holders(f)') = Cardinality(Holders(f)) + 1
           /\ \A g \in Confs \ {f} : Holders(g)' = Holders(g)
<1>1. c \notin Holders(f) /\ Holders(f)' = Holders(f) \cup {c}
  BY ReloadAssumption DEF Holders
<1>2. \A g \in Confs \ {f} : Holders(g)' = Holders(g)
  BY ReloadAssumption DEF Holders
<1>. QED BY <1>1, <1>2, HoldersFinite, FS_AddElement

\* A connection that lets go of handle f leaves one holder less.
LEMMA HoldersDrop ==
    ASSUME NEW c \in Conns, NEW f \in Confs,
           \A d \in Conns \ {c} : conn'[d].conf = conn[d].conf,
           conn[c].conf = f, conn'[c].conf = NoConf
    PROVE  /\ c \in Holders(f) /\ Holders(f)' = Holders(f) \ {c}
           /\ Cardinality(Holders(f)') = Cardinality(Holders(f)) - 1
           /\ \A g \in Confs \ {f} : Holders(g)' = Holders(g)
<1>1. c \in Holders(f) /\ Holders(f)' = Holders(f) \ {c}
  BY ReloadAssumption DEF Holders
<1>2. \A g \in Confs \ {f} : Holders(g)' = Holders(g)
  BY ReloadAssumption DEF Holders
<1>. QED BY <1>1, <1>2, HoldersFinite, FS_RemoveElement

\* Without a change of any cctx_config nothing changes.
LEMMA HoldersKeep ==
    ASSUME \A d \in Conns : conn'[d].conf = conn[d].conf
    PROVE  \A f : Holders(f)' = Holders(f)
BY DEF Holders

\* A handle with one holder has none when that one lets go.
LEMMA HoldersLast ==
    ASSUME NEW f, NEW c \in Holders(f), Cardinality(Holders(f)) = 1
    PROVE  Holders(f) = {c}
<1>1. IsFiniteSet(Holders(f)) BY HoldersFinite
<1>2. Cardinality(Holders(f) \ {c}) = 0 /\ IsFiniteSet(Holders(f) \ {c})
  BY <1>1, FS_RemoveElement
<1>3. Holders(f) \ {c} = {} BY <1>2, FS_EmptySet
<1>. QED BY <1>3

-----------------------------------------------------------------------------
(* Steps.                                                                  *)

\* A step of a connection that neither holds conf_lock nor takes or drops a
\* handle.
LEMMA QuietStep ==
    ASSUME IInv, NEW c \in Conns, c # lock,
           conn' \in [Conns -> ConnType],
           \A d \in Conns \ {c} : conn'[d] = conn[d],
           conn'[c].conf = conn[c].conf,
           conn'[c].msg # "none" => conn'[c].conf # NoConf,
           PlaceOK(c)',
           UNCHANGED <<curconf, conf, lock, new, reload, pending, file, wanted>>
    PROVE  IInv'
<1>. USE ReloadAssumption
<1>0. \A f : Holders(f)' = Holders(f) BY HoldersKeep
<1>1. TypeOK' BY DEF IInv, TypeOK
<1>2. RefsCounted' BY <1>0 DEF IInv, RefsCounted
<1>3. NoUseAfterFree' BY <1>0 DEF IInv, NoUseAfterFree
<1>4. \A d \in Conns : PlaceOK(d)'
  <2>. TAKE d \in Conns
  <2>1. CASE d = c BY <2>1
  <2>2. CASE d # c BY <2>2 DEF IInv, PlaceOK
  <2>. QED BY <2>1, <2>2
<1>5. LockOK' BY DEF IInv, LockOK, After, TypeOK, Nobody
<1>6. FreedOK' BY DEF IInv, FreedOK
<1>. QED BY <1>1, <1>2, <1>3, <1>4, <1>5, <1>6 DEF IInv

\* The invariant holds when the filter starts.
LEMMA InitIInv == Init => IInv
<1>. SUFFICES ASSUME Init PROVE IInv OBVIOUS
<1>. USE ReloadAssumption
<1>1. TypeOK
  <2>1. 0 \in Versions /\ 0 \in 0..Cardinality(Conns)
    BY ConnsCount DEF Versions
  <2>2. Freed \in ConfType BY <2>1 DEF Freed, ConfType
  <2>3. [Freed EXCEPT !.live = TRUE] \in ConfType BY <2>1 DEF Freed, ConfType
  <2>4. conf \in [Confs -> ConfType] BY <2>2, <2>3 DEF Init
  <2>5. Gone \in ConnType BY DEF Gone, ConnType
  <2>. QED BY <2>1, <2>4, <2>5 DEF Init, TypeOK
<1>2. \A f \in Confs : Holders(f) = {} BY DEF Init, Holders, Gone
<1>3. RefsCounted BY <1>2, FS_EmptySet DEF Init, RefsCounted, Freed
<1>4. NoUseAfterFree BY <1>2 DEF Init, NoUseAfterFree, Gone, Freed, Nobody
<1>5. \A c \in Conns : PlaceOK(c) BY DEF Init, PlaceOK, Gone
<1>6. LockOK BY DEF Init, LockOK, Nobody
<1>7. FreedOK BY DEF Init, FreedOK, Freed
<1>. QED BY <1>1, <1>3, <1>4, <1>5, <1>6, <1>7 DEF IInv

\* mlfi_negotiate() or mlfi_connect() takes a reference to the current handle.
LEMMA TakeStep ==
    ASSUME IInv, NEW c \in Conns, NEW p \in {"check", "open"},
           conn[c].pc \in {"acquireN", "acquireC"}, TakeReference(c, p)
    PROVE  IInv'
<1>. USE ReloadAssumption
<1>. PICK f \in Confs : f = curconf BY DEF IInv, TypeOK
<1>. DEFINE r == [conn[c] EXCEPT !.pc = p, !.conf = curconf, !.priv = (p = "open")]
<1>1. /\ conn[c].conf = NoConf /\ conf[f].live
      /\ conn[c] \in ConnType
  BY DEF IInv, PlaceOK, TypeOK, NoUseAfterFree
<1>2. /\ \A d \in Conns \ {c} : conn'[d] = conn[d]
      /\ conn'[c].pc = p /\ conn'[c].conf = f
      /\ conn'[c].msg = conn[c].msg /\ conn'[c].back = conn[c].back
      /\ conn'[c].priv = (p = "open")
  BY DEF TakeReference, IInv, TypeOK, ConnType
<1>3. /\ Cardinality(Holders(f)') = Cardinality(Holders(f)) + 1
      /\ \A g \in Confs \ {f} : Holders(g)' = Holders(g)
  BY <1>1, <1>2, HoldersTake
<1>4. /\ conf'[f].refcnt = conf[f].refcnt + 1
      /\ conf'[f].live = conf[f].live
      /\ conf'[f].version = conf[f].version
      /\ \A g \in Confs \ {f} : conf'[g] = conf[g]
      /\ UNCHANGED <<curconf, lock, new, reload, pending, file, wanted>>
  BY <1>1 DEF TakeReference, IInv, TypeOK, ConfType
<1>5. conf'[f].refcnt = Cardinality(Holders(f)')
  BY <1>1, <1>3, <1>4 DEF IInv, RefsCounted
<1>6. Cardinality(Holders(f)') \in 0..Cardinality(Conns)
  <2>1. Holders(f)' \subseteq Conns BY DEF Holders
  <2>. QED BY <2>1, ConnsCount, FS_Subset, FS_CardinalityType
<1>7. TypeOK'
  <2>1. conf' \in [Confs -> ConfType]
    <3>1. conf[f].refcnt + 1 \in 0..Cardinality(Conns)
      BY <1>4, <1>5, <1>6
    <3>2. [conf[f] EXCEPT !.refcnt = @ + 1] \in ConfType
      BY <1>1, <3>1 DEF IInv, TypeOK, ConfType
    <3>. QED BY <3>2 DEF TakeReference, IInv, TypeOK
  <2>2. r \in ConnType BY <1>1 DEF ConnType
  <2>3. conn' \in [Conns -> ConnType] BY <2>2 DEF TakeReference, IInv, TypeOK
  <2>. QED BY <1>4, <2>1, <2>3 DEF IInv, TypeOK
<1>8. RefsCounted' BY <1>3, <1>4, <1>5 DEF IInv, RefsCounted
<1>9. NoUseAfterFree'
  <2>1. conf'[curconf'].live BY <1>1, <1>4
  <2>2. \A d \in Conns : conn'[d].conf # NoConf => conf'[conn'[d].conf].live
    <3>. TAKE d \in Conns
    <3>1. CASE d = c BY <3>1, <1>1, <1>2, <1>4
    <3>2. CASE d # c
      <4>1. conn'[d] = conn[d] /\ conn[d].conf \in Confs \cup {NoConf}
        BY <3>2, <1>2 DEF IInv, TypeOK, ConnType
      <4>. QED BY <4>1, <1>4 DEF IInv, NoUseAfterFree
    <3>. QED BY <3>1, <3>2
  <2>3. \A d \in Conns : conn'[d].msg # "none" => conn'[d].conf # NoConf
    BY <1>1, <1>2 DEF IInv, NoUseAfterFree
  <2>4. lock' = Nobody BY DEF TakeReference
  <2>. QED BY <2>1, <2>2, <2>3, <2>4 DEF NoUseAfterFree
<1>10. \A d \in Conns : PlaceOK(d)'
  <2>. TAKE d \in Conns
  <2>1. CASE d = c BY <2>1, <1>1, <1>2 DEF PlaceOK
  <2>2. CASE d # c BY <2>2, <1>2 DEF IInv, PlaceOK
  <2>. QED BY <2>1, <2>2
<1>11. LockOK' BY <1>4 DEF TakeReference, IInv, LockOK
<1>12. FreedOK' BY <1>1, <1>4 DEF IInv, FreedOK
<1>. QED BY <1>7, <1>8, <1>9, <1>10, <1>11, <1>12 DEF IInv

\* mlfi_close(), or a failing mlfi_negotiate(), lets go of its handle, which is
\* freed only when it is superseded and this was the last reference.
LEMMA DropStep ==
    ASSUME IInv, NEW c \in Conns, NEW f \in Confs, conn[c].conf = f,
           lock = Nobody, conn' = [conn EXCEPT ![c] = Gone],
           \/ /\ conf[f].refcnt = 1 /\ f # curconf
              /\ conf' = [conf EXCEPT ![f] = Freed]
           \/ conf' = [conf EXCEPT ![f].refcnt = @ - 1],
           UNCHANGED <<curconf, lock, new, reload, pending, file, wanted>>
    PROVE  IInv'
<1>. USE ReloadAssumption
<1>1. /\ \A d \in Conns \ {c} : conn'[d] = conn[d]
      /\ conn'[c] = Gone
  BY DEF IInv, TypeOK
<1>2. /\ c \in Holders(f)
      /\ Holders(f)' = Holders(f) \ {c}
      /\ Cardinality(Holders(f)') = Cardinality(Holders(f)) - 1
      /\ \A g \in Confs \ {f} : Holders(g)' = Holders(g)
  BY <1>1, HoldersDrop DEF Gone
<1>3. conf[f].live /\ conf[f] \in ConfType /\ conf[f].refcnt = Cardinality(Holders(f))
  BY DEF IInv, NoUseAfterFree, RefsCounted, TypeOK
<1>4. /\ Cardinality(Holders(f)') \in 0..Cardinality(Conns)
  <2>1. Holders(f)' \subseteq Conns BY DEF Holders
  <2>. QED BY <2>1, ConnsCount, FS_Subset, FS_CardinalityType
<1>5. \A g \in Confs \ {f} : conf'[g] = conf[g]
  BY DEF IInv, TypeOK
<1>6. /\ conf'[f] \in ConfType
      /\ conf'[f].live => conf'[f].refcnt = Cardinality(Holders(f)')
      /\ ~conf'[f].live => conf'[f].refcnt = 0 /\ f # curconf /\ Holders(f)' = {}
      /\ conf' \in [Confs -> ConfType]
  <2>1. CASE /\ conf[f].refcnt = 1 /\ f # curconf
             /\ conf' = [conf EXCEPT ![f] = Freed]
    <3>1. Freed \in ConfType BY ConnsCount DEF Freed, ConfType, Versions
    <3>2. conf'[f] = Freed BY <2>1 DEF IInv, TypeOK
    <3>3. Holders(f)' = {} BY <1>2, <1>3, <2>1, HoldersLast
    <3>. QED BY <2>1, <3>1, <3>2, <3>3 DEF Freed, IInv, TypeOK
  <2>2. CASE conf' = [conf EXCEPT ![f].refcnt = @ - 1]
    <3>1. conf[f].refcnt - 1 = Cardinality(Holders(f)')
      BY <1>2, <1>3
    <3>2. [conf[f] EXCEPT !.refcnt = @ - 1] \in ConfType
      BY <1>3, <1>4, <3>1 DEF ConfType
    <3>3. conf'[f] = [conf[f] EXCEPT !.refcnt = @ - 1] BY <2>2 DEF IInv, TypeOK
    <3>4. conf'[f].live /\ conf'[f].refcnt = conf[f].refcnt - 1
      BY <1>3, <3>3 DEF ConfType
    <3>. QED BY <2>2, <3>1, <3>2, <3>3, <3>4 DEF IInv, TypeOK
  <2>. QED BY <2>1, <2>2
<1>7. TypeOK'
  <2>1. Gone \in ConnType BY DEF Gone, ConnType
  <2>. QED BY <1>6, <2>1 DEF IInv, TypeOK
<1>8. RefsCounted' BY <1>2, <1>5, <1>6 DEF IInv, RefsCounted
<1>9. NoUseAfterFree'
  <2>1. conf'[curconf].live BY <1>5, <1>6 DEF IInv, NoUseAfterFree, TypeOK
  <2>2. \A d \in Conns : conn'[d].conf # NoConf => conf'[conn'[d].conf].live
    <3>. TAKE d \in Conns
    <3>1. CASE d = c BY <3>1, <1>1 DEF Gone
    <3>2. CASE d # c /\ conn[d].conf = f
      <4>1. d \in Holders(f)' BY <3>2, <1>1 DEF Holders
      <4>. QED BY <3>2, <4>1, <1>1, <1>6
    <3>3. CASE d # c /\ conn[d].conf # f
      <4>1. conn'[d] = conn[d] /\ conn[d].conf \in Confs \cup {NoConf}
        BY <3>3, <1>1 DEF IInv, TypeOK, ConnType
      <4>. QED BY <3>3, <4>1, <1>5 DEF IInv, NoUseAfterFree
    <3>. QED BY <3>1, <3>2, <3>3
  <2>3. \A d \in Conns : conn'[d].msg # "none" => conn'[d].conf # NoConf
    BY <1>1 DEF IInv, NoUseAfterFree, Gone
  <2>. QED BY <2>1, <2>2, <2>3 DEF NoUseAfterFree
<1>10. \A d \in Conns : PlaceOK(d)'
  <2>. TAKE d \in Conns
  <2>1. CASE d = c BY <2>1, <1>1 DEF PlaceOK, Gone
  <2>2. CASE d # c BY <2>2, <1>1 DEF IInv, PlaceOK
  <2>. QED BY <2>1, <2>2
<1>11. LockOK' BY DEF IInv, LockOK
<1>12. FreedOK' BY <1>5, <1>6 DEF IInv, FreedOK
<1>. QED BY <1>7, <1>8, <1>9, <1>10, <1>11, <1>12 DEF IInv

\* A connection begins to load a handle: it was free, so nobody holds it.
LEMMA BeginReloadStep ==
    ASSUME IInv, NEW c \in Conns, BeginReload(c)
    PROVE  IInv'
<1>. USE ReloadAssumption
<1>1. PICK f \in Confs :
        /\ ~conf[f].live /\ new' = f
        /\ conf' = [conf EXCEPT ![f] =
                      [live |-> TRUE, refcnt |-> 0, version |-> file]]
  BY DEF BeginReload
<1>2. /\ conn' = [conn EXCEPT ![c].back = After(c)]
      /\ conn[c].pc \in {"negotiate", "connect"}
      /\ lock' = c /\ lock = Nobody
      /\ wanted' = 0
      /\ UNCHANGED <<curconf, reload, pending, file>>
  BY DEF BeginReload
<1>3. /\ \A d \in Conns \ {c} : conn'[d] = conn[d]
      /\ conn'[c] = [conn[c] EXCEPT !.back = After(c)]
      /\ conn[c] \in ConnType
  BY <1>2 DEF IInv, TypeOK
<1>4. /\ conn'[c].back = After(c) /\ conn'[c].pc = conn[c].pc
      /\ conn'[c].conf = conn[c].conf /\ conn'[c].priv = conn[c].priv
      /\ conn'[c].msg = conn[c].msg
  BY <1>3 DEF ConnType
<1>5. \A g : Holders(g)' = Holders(g) BY <1>3, <1>4, HoldersKeep
<1>6. /\ conf'[f] = [live |-> TRUE, refcnt |-> 0, version |-> file]
      /\ \A g \in Confs \ {f} : conf'[g] = conf[g]
  BY <1>1 DEF IInv, TypeOK
<1>7. Holders(f) = {} BY <1>1 DEF IInv, NoUseAfterFree, Holders
<1>8. TypeOK'
  <2>1. [live |-> TRUE, refcnt |-> 0, version |-> file] \in ConfType
    BY ConnsCount DEF IInv, TypeOK, ConfType
  <2>2. conf' \in [Confs -> ConfType] BY <2>1, <1>1 DEF IInv, TypeOK
  <2>3. After(c) \in {"gone", "acquireN", "acquireC", "open"} BY DEF After
  <2>4. [conn[c] EXCEPT !.back = After(c)] \in ConnType
    BY <1>3, <2>3 DEF ConnType
  <2>5. conn' \in [Conns -> ConnType] BY <1>2, <2>4 DEF IInv, TypeOK
  <2>6. wanted' \in Versions BY <1>2 DEF Versions
  <2>. QED BY <1>1, <1>2, <2>2, <2>5, <2>6 DEF IInv, TypeOK
<1>9. RefsCounted'
  <2>1. Cardinality({}) = 0 BY FS_EmptySet
  <2>2. SUFFICES ASSUME NEW g \in Confs, conf'[g].live
                 PROVE  conf'[g].refcnt = Cardinality(Holders(g))
    BY <1>5 DEF RefsCounted
  <2>3. CASE g = f BY <2>1, <2>3, <1>6, <1>7
  <2>4. CASE g # f BY <2>2, <2>4, <1>6 DEF IInv, RefsCounted
  <2>. QED BY <2>3, <2>4
<1>10. NoUseAfterFree'
  <2>1. f # curconf BY <1>1 DEF IInv, NoUseAfterFree
  <2>2. conf'[curconf].live BY <2>1, <1>6 DEF IInv, NoUseAfterFree, TypeOK
  <2>3. \A d \in Conns : conn'[d].conf # NoConf => conf'[conn'[d].conf].live
    <3>. TAKE d \in Conns
    <3>1. conn'[d].conf = conn[d].conf /\ conn[d].conf \in Confs \cup {NoConf}
      BY <1>3, <1>4 DEF IInv, TypeOK, ConnType
    <3>2. conn[d].conf # f BY <1>7 DEF Holders
    <3>. QED BY <3>1, <3>2, <1>6 DEF IInv, NoUseAfterFree
  <2>4. \A d \in Conns : conn'[d].msg # "none" => conn'[d].conf # NoConf
    BY <1>3, <1>4 DEF IInv, NoUseAfterFree
  <2>5. new' # NoConf /\ new' # curconf' /\ conf'[new'].live /\ Holders(f)' = {}
    BY <2>1, <1>1, <1>2, <1>5, <1>6, <1>7
  <2>6. Holders(new)' = {} BY <2>5, <1>1 DEF Holders
  <2>. QED BY <1>2, <2>2, <2>3, <2>4, <2>5, <2>6 DEF NoUseAfterFree
<1>11. \A d \in Conns : PlaceOK(d)'
  <2>. TAKE d \in Conns
  <2>1. CASE d = c BY <2>1, <1>4 DEF IInv, PlaceOK
  <2>2. CASE d # c
    <3>1. conn'[d] = conn[d] BY <2>2, <1>3
    <3>2. PlaceOK(d) BY DEF IInv
    <3>. QED BY <3>1, <3>2 DEF PlaceOK
  <2>. QED BY <2>1, <2>2
<1>12. LockOK'
  <2>1. c # Nobody BY DEF Nobody
  <2>2. After(c)' = After(c) BY <1>4 DEF After
  <2>. QED BY <1>1, <1>2, <1>4, <2>1, <2>2 DEF LockOK
<1>13. FreedOK' BY <1>6 DEF IInv, FreedOK
<1>. QED BY <1>8, <1>9, <1>10, <1>11, <1>12, <1>13 DEF IInv

\* The load ends: the lock is free again and the connection goes on.
LEMMA EndReloadStep ==
    ASSUME IInv, NEW c \in Conns, EndReload(c)
    PROVE  /\ lock = c /\ lock' = Nobody /\ new' = NoConf
           /\ new \in Confs /\ new # curconf /\ conf[new].live
           /\ conf[new].refcnt = 0 /\ Holders(new) = {}
           /\ conn' \in [Conns -> ConnType]
           /\ \A d \in Conns : conn'[d].conf = conn[d].conf
           /\ \A d \in Conns : conn'[d].msg = conn[d].msg
           /\ \A d \in Conns : PlaceOK(d)'
           /\ LockOK'
           /\ reload' \in BOOLEAN /\ UNCHANGED <<pending, file, wanted>>
<1>. USE ReloadAssumption
<1>1. /\ lock = c /\ lock' = Nobody /\ new' = NoConf /\ reload' = FALSE
      /\ UNCHANGED <<pending, file, wanted>>
      /\ conn' = [conn EXCEPT ![c].pc = conn[c].back, ![c].back = "gone"]
  BY DEF EndReload
<1>2. /\ lock # Nobody
      /\ conn[c].pc \in {"negotiate", "connect"} /\ conn[c].back = After(c)
  BY <1>1 DEF IInv, LockOK, Nobody
<1>3. /\ new \in Confs /\ new # curconf /\ conf[new].live /\ Holders(new) = {}
  BY <1>2 DEF IInv, NoUseAfterFree, TypeOK
<1>4. conf[new].refcnt = 0 BY <1>3, FS_EmptySet DEF IInv, RefsCounted
<1>5. conn[c] \in ConnType /\ \A d \in Conns \ {c} : conn'[d] = conn[d]
  BY <1>1 DEF IInv, TypeOK
<1>6. conn'[c] = [conn[c] EXCEPT !.pc = conn[c].back, !.back = "gone"]
  BY <1>1 DEF IInv, TypeOK
<1>7. After(c) \in {"acquireN", "acquireC", "open"} BY DEF After
<1>8. conn'[c] \in ConnType BY <1>2, <1>5, <1>6, <1>7 DEF ConnType
<1>9. conn' \in [Conns -> ConnType] BY <1>1, <1>6, <1>8 DEF IInv, TypeOK
<1>10. /\ conn'[c].conf = conn[c].conf /\ conn'[c].msg = conn[c].msg
       /\ conn'[c].priv = conn[c].priv /\ conn'[c].pc = After(c)
  BY <1>2, <1>5, <1>6 DEF ConnType
<1>11. PlaceOK(c)'
  <2>1. PlaceOK(c) BY DEF IInv
  <2>. QED BY <1>2, <1>10, <2>1 DEF PlaceOK, After
<1>12. \A d \in Conns : PlaceOK(d)'
  <2>. TAKE d \in Conns
  <2>1. CASE d = c BY <2>1, <1>11
  <2>2. CASE d # c
    <3>1. conn'[d] = conn[d] BY <2>2, <1>5
    <3>2. PlaceOK(d) BY DEF IInv
    <3>. QED BY <3>1, <3>2 DEF PlaceOK
  <2>. QED BY <2>1, <2>2
<1>13. LockOK' BY <1>1 DEF LockOK
<1>14. \A d \in Conns : conn'[d].conf = conn[d].conf /\ conn'[d].msg = conn[d].msg
  BY <1>5, <1>10
<1>. QED BY <1>1, <1>3, <1>4, <1>9, <1>12, <1>13, <1>14

\* A failed load: the new handle goes, which nobody could hold.
LEMMA ReloadFailsStep ==
    ASSUME IInv, NEW c \in Conns, ReloadFails(c)
    PROVE  IInv'
<1>. USE ReloadAssumption
<1>0. /\ EndReload(c) /\ conf' = [conf EXCEPT ![new] = Freed] /\ curconf' = curconf
  BY DEF ReloadFails
<1>. PICK f \in Confs : f = new BY <1>0, EndReloadStep
<1>1. /\ lock' = Nobody /\ new' = NoConf /\ f # curconf /\ Holders(f) = {}
      /\ conn' \in [Conns -> ConnType]
      /\ \A d \in Conns : conn'[d].conf = conn[d].conf
      /\ \A d \in Conns : conn'[d].msg = conn[d].msg
      /\ \A d \in Conns : PlaceOK(d)'
      /\ LockOK'
      /\ reload' \in BOOLEAN /\ UNCHANGED <<pending, file, wanted>>
  BY <1>0, EndReloadStep
<1>2. \A g : Holders(g)' = Holders(g) BY <1>1, HoldersKeep
<1>3. conf'[f] = Freed /\ \A g \in Confs \ {f} : conf'[g] = conf[g]
  BY <1>0 DEF IInv, TypeOK
<1>4. TypeOK'
  <2>1. Freed \in ConfType BY ConnsCount DEF Freed, ConfType, Versions
  <2>2. conf' \in [Confs -> ConfType] BY <2>1, <1>0 DEF IInv, TypeOK
  <2>. QED BY <1>0, <1>1, <2>2 DEF IInv, TypeOK
<1>5. RefsCounted' BY <1>2, <1>3 DEF IInv, RefsCounted, Freed
<1>6. NoUseAfterFree'
  <2>1. conf'[curconf'].live BY <1>0, <1>1, <1>3 DEF IInv, NoUseAfterFree, TypeOK
  <2>2. \A d \in Conns : conn'[d].conf # NoConf => conf'[conn'[d].conf].live
    <3>. TAKE d \in Conns
    <3>1. conn'[d].conf = conn[d].conf /\ conn[d].conf \in Confs \cup {NoConf}
      BY <1>1 DEF IInv, TypeOK, ConnType
    <3>2. conn[d].conf # f BY <1>1 DEF Holders
    <3>. QED BY <3>1, <3>2, <1>3 DEF IInv, NoUseAfterFree
  <2>3. \A d \in Conns : conn'[d].msg # "none" => conn'[d].conf # NoConf
    BY <1>1 DEF IInv, NoUseAfterFree
  <2>. QED BY <1>1, <2>1, <2>2, <2>3 DEF NoUseAfterFree
<1>7. FreedOK' BY <1>3 DEF IInv, FreedOK, Freed
<1>. QED BY <1>1, <1>4, <1>5, <1>6, <1>7 DEF IInv

\* A successful one: the old handle goes if nobody holds it.
LEMMA ReloadSucceedsStep ==
    ASSUME IInv, NEW c \in Conns, ReloadSucceeds(c)
    PROVE  IInv'
<1>. USE ReloadAssumption
<1>0. /\ EndReload(c) /\ curconf' = new
      /\ conf' = IF conf[curconf].refcnt = 0
                 THEN [conf EXCEPT ![curconf] = Freed] ELSE conf
  BY DEF ReloadSucceeds
<1>. PICK f \in Confs : f = curconf BY DEF IInv, TypeOK
<1>1. /\ lock' = Nobody /\ new' = NoConf
      /\ new \in Confs /\ new # f /\ conf[new].live
      /\ conn' \in [Conns -> ConnType]
      /\ \A d \in Conns : conn'[d].conf = conn[d].conf
      /\ \A d \in Conns : conn'[d].msg = conn[d].msg
      /\ \A d \in Conns : PlaceOK(d)'
      /\ LockOK'
      /\ reload' \in BOOLEAN /\ UNCHANGED <<pending, file, wanted>>
  BY <1>0, EndReloadStep
<1>2. \A g : Holders(g)' = Holders(g) BY <1>1, HoldersKeep
<1>3. /\ \A g \in Confs \ {f} : conf'[g] = conf[g]
      /\ conf'[f] = conf[f] \/ (conf'[f] = Freed /\ conf[f].refcnt = 0)
      /\ conf' \in [Confs -> ConfType]
  <2>1. Freed \in ConfType BY ConnsCount DEF Freed, ConfType, Versions
  <2>2. CASE conf[f].refcnt = 0 BY <2>1, <2>2, <1>0 DEF IInv, TypeOK
  <2>3. CASE conf[f].refcnt # 0 BY <2>3, <1>0 DEF IInv, TypeOK
  <2>. QED BY <2>2, <2>3
<1>4. TypeOK' BY <1>0, <1>1, <1>3 DEF IInv, TypeOK
<1>5. RefsCounted' BY <1>2, <1>3 DEF IInv, RefsCounted, Freed
<1>6. conf[f].refcnt = 0 => Holders(f) = {}
  <2>. HAVE conf[f].refcnt = 0
  <2>1. Cardinality(Holders(f)) = 0 BY DEF IInv, RefsCounted, NoUseAfterFree
  <2>. QED BY <2>1, HoldersFinite, FS_EmptySet
<1>7. NoUseAfterFree'
  <2>1. conf'[curconf'].live BY <1>0, <1>1, <1>3
  <2>2. \A d \in Conns : conn'[d].conf # NoConf => conf'[conn'[d].conf].live
    <3>. TAKE d \in Conns
    <3>1. conn'[d].conf = conn[d].conf /\ conn[d].conf \in Confs \cup {NoConf}
      BY <1>1 DEF IInv, TypeOK, ConnType
    <3>2. conn[d].conf # f \/ conf'[f] = conf[f] BY <1>3, <1>6 DEF Holders
    <3>. QED BY <3>1, <3>2, <1>3 DEF IInv, NoUseAfterFree
  <2>3. \A d \in Conns : conn'[d].msg # "none" => conn'[d].conf # NoConf
    BY <1>1 DEF IInv, NoUseAfterFree
  <2>. QED BY <1>1, <2>1, <2>2, <2>3 DEF NoUseAfterFree
<1>8. FreedOK' BY <1>3 DEF IInv, FreedOK, Freed
<1>. QED BY <1>1, <1>4, <1>5, <1>7, <1>8 DEF IInv

\* Every step of the specification keeps the invariant.
LEMMA NextIInv == IInv /\ [Next]_vars => IInv'
<1>. SUFFICES ASSUME IInv, [Next]_vars PROVE IInv' OBVIOUS
<1>. USE ReloadAssumption
<1>1. ASSUME NEW c \in Conns, ConnStep(c) PROVE IInv'
  <2>0. /\ conn \in [Conns -> ConnType] /\ conn[c] \in ConnType /\ PlaceOK(c)
        /\ conn[c].msg # "none" => conn[c].conf # NoConf
        /\ lock = c => conn[c].pc \in {"negotiate", "connect"}
        /\ c # Nobody
    BY DEF IInv, TypeOK, NoUseAfterFree, LockOK, Nobody
  <2>1. CASE Begin(c)
    <3>1. PICK p \in {"negotiate", "connect"} : conn' = [conn EXCEPT ![c].pc = p]
      BY <2>1 DEF Begin
    <3>2. /\ conn[c].pc = "gone"
          /\ UNCHANGED <<curconf, conf, lock, new, reload, pending, file, wanted>>
      BY <2>1 DEF Begin
    <3>. QED BY <2>0, <3>1, <3>2, QuietStep DEF ConnType, PlaceOK
  <2>2. CASE NoReload(c)
    BY <2>0, <2>2, QuietStep DEF NoReload, After, ConnType, PlaceOK
  <2>3. CASE BeginReload(c) BY <2>3, BeginReloadStep
  <2>4. CASE ReloadFails(c) BY <2>4, ReloadFailsStep
  <2>5. CASE ReloadSucceeds(c) BY <2>5, ReloadSucceedsStep
  <2>6. CASE NoMemory(c)
    <3>1. Gone \in ConnType BY DEF Gone, ConnType
    <3>. QED BY <2>0, <2>6, <3>1, QuietStep DEF NoMemory, Gone, ConnType, PlaceOK
  <2>7. CASE NegotiateAcquire(c) BY <2>7, TakeStep DEF NegotiateAcquire
  <2>8. CASE NegotiateRejects(c)
    <3>1. conn[c].conf \in Confs /\ conn[c].pc = "check"
      BY <2>0, <2>8 DEF NegotiateRejects, ConnType, PlaceOK
    <3>. QED BY <2>8, <3>1, DropStep DEF NegotiateRejects
  <2>9. CASE NegotiateDone(c)
    <3>. DEFINE r == [conn[c] EXCEPT !.pc = "negotiated", !.priv = TRUE]
    <3>1. r \in ConnType BY <2>0 DEF ConnType
    <3>2. /\ conn' = [conn EXCEPT ![c] = r]
          /\ UNCHANGED <<curconf, conf, lock, new, reload, pending, file, wanted>>
          /\ conn[c].pc = "check"
      BY <2>0, <2>9 DEF NegotiateDone
    <3>3. /\ conn' \in [Conns -> ConnType] /\ conn'[c] = r
          /\ \A d \in Conns \ {c} : conn'[d] = conn[d]
      BY <2>0, <3>1, <3>2
    <3>4. conn'[c].pc = "negotiated" /\ conn'[c].priv /\ conn'[c].conf = conn[c].conf
          /\ (conn'[c].msg # "none" => conn'[c].conf # NoConf)
      BY <2>0, <3>3 DEF ConnType
    <3>5. conn[c].conf # NoConf BY <2>0, <3>2 DEF PlaceOK
    <3>6. PlaceOK(c)' BY <3>4, <3>5 DEF PlaceOK
    <3>7. c # lock BY <2>0, <3>2
    <3>. QED BY <3>2, <3>3, <3>4, <3>6, <3>7, QuietStep
  <2>10. CASE CallConnect(c)
    <3>. DEFINE r == [conn[c] EXCEPT !.pc = "connect"]
    <3>1. r \in ConnType BY <2>0 DEF ConnType
    <3>2. /\ conn' = [conn EXCEPT ![c] = r]
          /\ UNCHANGED <<curconf, conf, lock, new, reload, pending, file, wanted>>
          /\ conn[c].pc = "negotiated"
      BY <2>0, <2>10 DEF CallConnect
    <3>3. /\ conn' \in [Conns -> ConnType] /\ conn'[c] = r
          /\ \A d \in Conns \ {c} : conn'[d] = conn[d]
      BY <2>0, <3>1, <3>2
    <3>4. conn'[c].pc = "connect" /\ conn'[c].conf = conn[c].conf
          /\ conn'[c].priv = conn[c].priv
          /\ (conn'[c].msg # "none" => conn'[c].conf # NoConf)
      BY <2>0, <3>3 DEF ConnType
    <3>5. conn[c].conf # NoConf /\ conn[c].priv BY <2>0, <3>2 DEF PlaceOK
    <3>6. PlaceOK(c)' BY <3>4, <3>5 DEF PlaceOK
    <3>7. c # lock BY <2>0, <3>2
    <3>. QED BY <3>2, <3>3, <3>4, <3>6, <3>7, QuietStep
  <2>11. CASE ConnectAcquire(c) BY <2>11, TakeStep DEF ConnectAcquire
  <2>12. CASE Message(c)
    <3>1. PICK m \in {"none", "context", "handle"} :
            conn' = [conn EXCEPT ![c].msg = m]
      BY <2>12 DEF Message
    <3>. QED BY <2>0, <2>12, <3>1, QuietStep DEF Message, ConnType, PlaceOK
  <2>13. CASE Close(c)
    <3>. DEFINE r == [conn[c] EXCEPT !.pc = "closing", !.msg = "none"]
    <3>1. r \in ConnType BY <2>0 DEF ConnType
    <3>2. /\ conn' = [conn EXCEPT ![c] = r]
          /\ UNCHANGED <<curconf, conf, lock, new, reload, pending, file, wanted>>
          /\ conn[c].pc \in {"negotiated", "open"}
      BY <2>0, <2>13 DEF Close
    <3>3. /\ conn' \in [Conns -> ConnType] /\ conn'[c] = r
          /\ \A d \in Conns \ {c} : conn'[d] = conn[d]
      BY <2>0, <3>1, <3>2
    <3>4. conn'[c].pc = "closing" /\ conn'[c].conf = conn[c].conf
          /\ (conn'[c].msg # "none" => conn'[c].conf # NoConf)
      BY <2>0, <3>3 DEF ConnType
    <3>5. conn[c].conf # NoConf BY <2>0, <3>2 DEF PlaceOK
    <3>6. PlaceOK(c)' BY <3>4, <3>5 DEF PlaceOK
    <3>7. c # lock BY <2>0, <3>2
    <3>. QED BY <3>2, <3>3, <3>4, <3>6, <3>7, QuietStep
  <2>14. CASE Release(c)
    <3>1. conn[c].conf \in Confs /\ conn[c].pc = "closing"
      BY <2>0, <2>14 DEF Release, ConnType, PlaceOK
    <3>. QED BY <2>14, <3>1, DropStep DEF Release
  <2>. QED BY <1>1, <2>1, <2>2, <2>3, <2>4, <2>5, <2>6, <2>7, <2>8, <2>9, <2>10,
             <2>11, <2>12, <2>13, <2>14 DEF ConnStep
<1>2. ASSUME Edit \/ Kill \/ Reloader PROVE IInv'
  <2>1. /\ UNCHANGED <<curconf, conf, conn, lock, new>>
        /\ reload' \in BOOLEAN /\ pending' \in BOOLEAN
        /\ file' \in Versions /\ wanted' \in Versions
    <3>1. /\ reload \in BOOLEAN /\ pending \in BOOLEAN
          /\ file \in 0..MaxEdits /\ wanted \in 0..MaxEdits
      BY DEF IInv, TypeOK, Versions
    <3>2. CASE Edit BY <3>1, <3>2 DEF Edit, Versions
    <3>3. CASE Kill BY <3>1, <3>3 DEF Kill, Versions
    <3>4. CASE Reloader BY <3>1, <3>4 DEF Reloader, Versions
    <3>. QED BY <1>2, <3>2, <3>3, <3>4
  <2>2. \A f : Holders(f)' = Holders(f) BY <2>1 DEF Holders
  <2>3. TypeOK' BY <2>1 DEF IInv, TypeOK
  <2>4. RefsCounted' BY <2>1, <2>2 DEF IInv, RefsCounted
  <2>5. NoUseAfterFree' BY <2>1, <2>2 DEF IInv, NoUseAfterFree
  <2>6. (\A c \in Conns : PlaceOK(c)') /\ LockOK' /\ FreedOK'
    BY <2>1 DEF IInv, PlaceOK, LockOK, FreedOK, After
  <2>. QED BY <2>3, <2>4, <2>5, <2>6 DEF IInv
<1>3. CASE UNCHANGED vars
  <2>1. \A f : Holders(f)' = Holders(f) BY <1>3 DEF vars, Holders
  <2>. QED BY <1>3, <2>1 DEF vars, IInv, TypeOK, RefsCounted, NoUseAfterFree,
                             PlaceOK, LockOK, FreedOK, After
<1>. QED BY <1>1, <1>2, <1>3 DEF Next

-----------------------------------------------------------------------------
(* Theorems.                                                               *)

\* The inductive invariant holds in every reachable state.
THEOREM Inductive == Spec => []IInv
BY InitIInv, NextIInv, PTL DEF Spec

\* Type correctness, for any number of connections and handles.
THEOREM TypeCorrect == Spec => []TypeOK
<1>1. IInv => TypeOK BY DEF IInv
<1>. QED BY <1>1, Inductive, PTL

\* A handle's reference count is the number of connections that hold it.
THEOREM CountsCorrect == Spec => []RefsCounted
<1>1. IInv => RefsCounted BY DEF IInv
<1>. QED BY <1>1, Inductive, PTL

\* No configuration handle in use is freed, whatever reloads and connections do.
THEOREM Safe == Spec => []NoUseAfterFree
<1>1. IInv => NoUseAfterFree BY DEF IInv
<1>. QED BY <1>1, Inductive, PTL

-----------------------------------------------------------------------------
(* Action properties.                                                      *)

\* What a step does to the handle of each connection: it keeps it, takes the
\* current one when it has none, or lets go of it.
LEMMA HandleStep ==
    ASSUME IInv, [Next]_vars
    PROVE  \/ \A d \in Conns : conn'[d].conf = conn[d].conf
           \/ \E c \in Conns :
                /\ \A d \in Conns \ {c} : conn'[d].conf = conn[d].conf
                /\ \/ conn[c].conf = NoConf
                   \/ conn'[c].conf = NoConf
<1>. USE ReloadAssumption
<1>0. conn \in [Conns -> ConnType] /\ \A c \in Conns : PlaceOK(c)
  BY DEF IInv, TypeOK
<1>1. ASSUME NEW c \in Conns, NoReload(c) \/ BeginReload(c) \/ Begin(c)
                               \/ NegotiateDone(c) \/ CallConnect(c)
                               \/ Message(c) \/ Close(c)
      PROVE  \A d \in Conns : conn'[d].conf = conn[d].conf
  <2>1. CASE NoReload(c) BY <1>0, <2>1 DEF NoReload, ConnType
  <2>2. CASE BeginReload(c) BY <1>0, <2>2 DEF BeginReload, ConnType
  <2>3. CASE Begin(c) BY <1>0, <2>3 DEF Begin, ConnType
  <2>4. CASE NegotiateDone(c) BY <1>0, <2>4 DEF NegotiateDone, ConnType
  <2>5. CASE CallConnect(c) BY <1>0, <2>5 DEF CallConnect, ConnType
  <2>6. CASE Message(c) BY <1>0, <2>6 DEF Message, ConnType
  <2>7. CASE Close(c) BY <1>0, <2>7 DEF Close, ConnType
  <2>. QED BY <1>1, <2>1, <2>2, <2>3, <2>4, <2>5, <2>6, <2>7
<1>2. ASSUME NEW c \in Conns, ReloadFails(c) \/ ReloadSucceeds(c)
      PROVE  \A d \in Conns : conn'[d].conf = conn[d].conf
  BY <1>2, EndReloadStep DEF ReloadFails, ReloadSucceeds
<1>3. ASSUME NEW c \in Conns, NoMemory(c) \/ NegotiateRejects(c) \/ Release(c)
      PROVE  /\ \A d \in Conns \ {c} : conn'[d].conf = conn[d].conf
             /\ conn'[c].conf = NoConf
  <2>1. conn' = [conn EXCEPT ![c] = Gone]
    BY <1>3 DEF NoMemory, NegotiateRejects, Release
  <2>. QED BY <1>0, <2>1 DEF Gone
<1>4. ASSUME NEW c \in Conns, NegotiateAcquire(c) \/ ConnectAcquire(c)
      PROVE  /\ \A d \in Conns \ {c} : conn'[d].conf = conn[d].conf
             /\ conn[c].conf = NoConf
  <2>1. conn[c].conf = NoConf
    BY <1>0, <1>4 DEF NegotiateAcquire, ConnectAcquire, PlaceOK
  <2>2. \A d \in Conns \ {c} : conn'[d].conf = conn[d].conf
    BY <1>0, <1>4 DEF NegotiateAcquire, ConnectAcquire, TakeReference
  <2>. QED BY <2>1, <2>2
<1>5. CASE Edit \/ Kill \/ Reloader \/ UNCHANGED vars
  BY <1>5 DEF Edit, Kill, Reloader, vars
<1>. QED BY <1>1, <1>2, <1>3, <1>4, <1>5 DEF Next, ConnStep

\* The version of a handle: the current one was read before the one being
\* loaded, and both before the file's last edit.
VersionsOK ==
    /\ conf[curconf].version <= file
    /\ lock # Nobody => /\ conf[curconf].version <= conf[new].version
                        /\ conf[new].version <= file

LEMMA InitVersions == Init => VersionsOK
BY ReloadAssumption DEF Init, VersionsOK, Freed

\* A reload replaces the current handle by the one it has loaded, never by an
\* older one; nothing else replaces it or changes its version.
LEMMA VersionStep ==
    ASSUME IInv, VersionsOK, [Next]_vars
    PROVE  VersionsOK' /\ conf'[curconf'].version >= conf[curconf].version
<1>. USE ReloadAssumption
<1>0. /\ curconf \in Confs /\ conf \in [Confs -> ConfType] /\ file \in Nat
      /\ MaxEdits \in Nat /\ conf[curconf].live
      /\ lock # Nobody => new \in Confs /\ new # curconf
  BY DEF IInv, TypeOK, NoUseAfterFree, Versions
<1>1. PICK f \in Confs : f = curconf BY <1>0
<1>2. \A g \in Confs : conf[g].version \in Nat
  BY <1>0 DEF ConfType, Versions
<1>3. ASSUME NEW c \in Conns, BeginReload(c)
      PROVE  VersionsOK' /\ conf'[curconf'].version >= conf[curconf].version
  <2>1. PICK n \in Confs :
          /\ ~conf[n].live /\ new' = n
          /\ conf' = [conf EXCEPT ![n] =
                        [live |-> TRUE, refcnt |-> 0, version |-> file]]
    BY <1>3 DEF BeginReload
  <2>2. n # f /\ conf'[n].version = file /\ conf'[f] = conf[f]
    BY <1>0, <1>1, <2>1
  <2>3. UNCHANGED <<curconf, file>> BY <1>3 DEF BeginReload
  <2>. QED BY <1>0, <1>1, <1>2, <2>1, <2>2, <2>3 DEF VersionsOK
<1>4. ASSUME NEW c \in Conns, ReloadFails(c) \/ ReloadSucceeds(c)
      PROVE  VersionsOK' /\ conf'[curconf'].version >= conf[curconf].version
  <2>1. EndReload(c) BY <1>4 DEF ReloadFails, ReloadSucceeds
  <2>2. lock = c /\ lock' = Nobody /\ c # Nobody /\ UNCHANGED file
    BY <2>1 DEF EndReload, Nobody
  <2>3. PICK n \in Confs : n = new /\ n # f BY <1>0, <1>1, <2>2
  <2>4. CASE ReloadFails(c)
    <3>1. conf'[f] = conf[f] /\ curconf' = f
      BY <1>0, <1>1, <2>3, <2>4 DEF ReloadFails
    <3>. QED BY <1>1, <1>2, <2>2, <3>1 DEF VersionsOK
  <2>5. CASE ReloadSucceeds(c)
    <3>1. conf'[n] = conf[n] /\ curconf' = n
      BY <1>0, <1>1, <2>3, <2>5 DEF ReloadSucceeds
    <3>2. conf[f].version <= conf[n].version /\ conf[n].version <= file
      BY <1>1, <2>2, <2>3 DEF VersionsOK
    <3>. QED BY <1>1, <1>2, <2>2, <3>1, <3>2 DEF VersionsOK
  <2>. QED BY <1>4, <2>4, <2>5
<1>5. ASSUME UNCHANGED <<curconf, lock, new>>, file' \in Nat, file' >= file,
             \A g \in Confs : conf'[g].version = conf[g].version
                              \/ (g # curconf /\ lock = Nobody)
      PROVE  VersionsOK' /\ conf'[curconf'].version >= conf[curconf].version
  <2>1. conf'[f].version = conf[f].version BY <1>1, <1>5
  <2>2. CASE lock = Nobody
    BY <1>0, <1>1, <1>2, <1>5, <2>1, <2>2 DEF VersionsOK
  <2>3. CASE lock # Nobody
    <3>1. PICK n \in Confs : n = new BY <1>0, <2>3
    <3>2. conf'[n].version = conf[n].version BY <1>5, <2>3
    <3>3. conf[f].version <= conf[n].version /\ conf[n].version <= file
          /\ conf[f].version <= file
      BY <1>1, <2>3, <3>1 DEF VersionsOK
    <3>4. /\ conf'[f].version <= file' /\ conf'[f].version <= conf'[n].version
          /\ conf'[n].version <= file'
      BY <1>0, <1>2, <1>5, <2>1, <3>2, <3>3
    <3>. QED BY <1>1, <1>2, <1>5, <2>1, <3>1, <3>4 DEF VersionsOK
  <2>. QED BY <2>2, <2>3
<1>6. ASSUME NEW c \in Conns, NegotiateAcquire(c) \/ ConnectAcquire(c)
      PROVE  VersionsOK' /\ conf'[curconf'].version >= conf[curconf].version
  <2>1. /\ conf' = [conf EXCEPT ![f].refcnt = @ + 1]
        /\ UNCHANGED <<curconf, lock, new, file>>
    BY <1>1, <1>6 DEF NegotiateAcquire, ConnectAcquire, TakeReference
  <2>2. \A g \in Confs : conf'[g].version = conf[g].version
    BY <1>0, <2>1 DEF ConfType
  <2>. QED BY <1>0, <1>5, <2>1, <2>2
<1>7. ASSUME NEW c \in Conns, NegotiateRejects(c) \/ Release(c)
      PROVE  VersionsOK' /\ conf'[curconf'].version >= conf[curconf].version
  <2>1. PICK g : g = conn[c].conf OBVIOUS
  <2>2. /\ \/ g # curconf /\ conf' = [conf EXCEPT ![g] = Freed]
           \/ conf' = [conf EXCEPT ![g].refcnt = @ - 1]
        /\ lock = Nobody /\ UNCHANGED <<curconf, lock, new, file>>
    BY <1>7, <2>1 DEF NegotiateRejects, Release
  <2>3. \A h \in Confs : conf'[h].version = conf[h].version
                          \/ (h # curconf /\ lock = Nobody)
    <3>. TAKE h \in Confs
    <3>1. CASE g # curconf /\ conf' = [conf EXCEPT ![g] = Freed]
      BY <1>0, <2>2, <3>1
    <3>2. CASE conf' = [conf EXCEPT ![g].refcnt = @ - 1]
      BY <1>0, <3>2 DEF ConfType
    <3>. QED BY <2>2, <3>1, <3>2
  <2>. QED BY <1>0, <1>5, <2>2, <2>3
<1>8. ASSUME UNCHANGED <<curconf, conf, lock, new, file>>
      PROVE  VersionsOK' /\ conf'[curconf'].version >= conf[curconf].version
  BY <1>0, <1>5, <1>8
<1>9. CASE Edit
  <2>1. UNCHANGED <<curconf, conf, lock, new>> /\ file' = file + 1 BY <1>9 DEF Edit
  <2>. QED BY <1>0, <1>5, <2>1
<1>10. CASE Kill \/ Reloader \/ UNCHANGED vars
  <2>1. UNCHANGED <<curconf, conf, lock, new, file>> BY <1>10 DEF Kill, Reloader, vars
  <2>. QED BY <1>8, <2>1
<1>11. ASSUME NEW c \in Conns, \/ Begin(c) \/ NoReload(c) \/ NoMemory(c)
                               \/ NegotiateDone(c) \/ CallConnect(c)
                               \/ Message(c) \/ Close(c)
       PROVE  VersionsOK' /\ conf'[curconf'].version >= conf[curconf].version
  <2>1. UNCHANGED <<curconf, conf, lock, new, file>>
    BY <1>11 DEF Begin, NoReload, NoMemory, NegotiateDone, CallConnect, Message, Close
  <2>. QED BY <1>8, <2>1
<1>. QED BY <1>3, <1>4, <1>6, <1>7, <1>9, <1>10, <1>11 DEF Next, ConnStep

\* Nothing but a failing mlfi_negotiate() leaves behind a superseded handle that
\* nobody holds: a reload frees the one it replaces when it has no reference,
\* and mlfi_close() the one it was the last to hold.
LEMMA LeakStep ==
    ASSUME IInv, [Next]_vars, NEW f \in Confs, Leaked(f)', ~Leaked(f)
    PROVE  \E c \in Conns : conn[c].pc = "check" /\ conn[c].conf = f
                            /\ conn'[c].pc = "gone"
<1>. USE ReloadAssumption
<1>0. /\ conn \in [Conns -> ConnType] /\ conf \in [Confs -> ConfType]
      /\ curconf \in Confs /\ (lock = Nobody => new = NoConf)
      /\ \A c \in Conns : PlaceOK(c)
      /\ conf[f].live => conf[f].refcnt = Cardinality(Holders(f))
  BY DEF IInv, TypeOK, LockOK, RefsCounted
<1>1. conf'[f].live /\ f # curconf' /\ f # new' /\ Holders(f)' = {}
  BY DEF Leaked
<1>2. ASSUME UNCHANGED <<curconf, conf, new>>,
             \A d \in Conns : conn'[d].conf = conn[d].conf
      PROVE  FALSE
  BY <1>1, <1>2, HoldersKeep DEF Leaked
<1>3. ASSUME NEW c \in Conns, \/ Begin(c) \/ NoReload(c) \/ NoMemory(c)
                              \/ NegotiateDone(c) \/ CallConnect(c)
                              \/ Message(c) \/ Close(c)
      PROVE  FALSE
  <2>1. UNCHANGED <<curconf, conf, new>>
    BY <1>3 DEF Begin, NoReload, NoMemory, NegotiateDone, CallConnect, Message, Close
  <2>2. \A d \in Conns : conn'[d].conf = conn[d].conf
    <3>1. CASE NoReload(c) BY <1>0, <3>1 DEF NoReload, ConnType
    <3>2. CASE Begin(c) BY <1>0, <3>2 DEF Begin, ConnType
    <3>3. CASE NegotiateDone(c) BY <1>0, <3>3 DEF NegotiateDone, ConnType
    <3>4. CASE CallConnect(c) BY <1>0, <3>4 DEF CallConnect, ConnType
    <3>5. CASE Message(c) BY <1>0, <3>5 DEF Message, ConnType
    <3>6. CASE Close(c) BY <1>0, <3>6 DEF Close, ConnType
    <3>7. CASE NoMemory(c) BY <1>0, <3>7 DEF NoMemory, Gone, PlaceOK
    <3>. QED BY <1>3, <3>1, <3>2, <3>3, <3>4, <3>5, <3>6, <3>7
  <2>. QED BY <1>2, <2>1, <2>2
<1>4. ASSUME NEW c \in Conns, BeginReload(c) PROVE FALSE
  <2>1. PICK n \in Confs :
          /\ new' = n
          /\ conf' = [conf EXCEPT ![n] =
                        [live |-> TRUE, refcnt |-> 0, version |-> file]]
    BY <1>4 DEF BeginReload
  <2>2. conf'[f] = conf[f] BY <1>0, <1>1, <2>1
  <2>3. new = NoConf /\ UNCHANGED curconf BY <1>0, <1>4 DEF BeginReload
  <2>4. \A d \in Conns : conn'[d].conf = conn[d].conf
    BY <1>0, <1>4 DEF BeginReload, ConnType
  <2>5. Holders(f) = {} BY <1>1, <2>4, HoldersKeep
  <2>. QED BY <1>1, <2>2, <2>3, <2>5 DEF Leaked
<1>5. ASSUME NEW c \in Conns, ReloadFails(c) \/ ReloadSucceeds(c) PROVE FALSE
  <2>1. PICK n \in Confs : n = new
    BY <1>5, EndReloadStep DEF ReloadFails, ReloadSucceeds
  <2>2. PICK u \in Confs : u = curconf BY <1>0
  <2>3. Holders(f) = {}
    <3>1. \A d \in Conns : conn'[d].conf = conn[d].conf
      BY <1>5, EndReloadStep DEF ReloadFails, ReloadSucceeds
    <3>. QED BY <1>1, <3>1, HoldersKeep
  <2>4. CASE ReloadFails(c)
    <3>1. f # n BY <1>0, <1>1, <2>1, <2>4 DEF ReloadFails, Freed
    <3>2. conf'[f] = conf[f] /\ f # u
      BY <1>0, <1>1, <2>1, <2>2, <2>4, <3>1 DEF ReloadFails
    <3>. QED BY <1>1, <2>1, <2>2, <2>3, <3>1, <3>2 DEF Leaked
  <2>5. CASE ReloadSucceeds(c)
    <3>1. f # n BY <1>1, <2>1, <2>5 DEF ReloadSucceeds
    <3>2. CASE f = u
      <4>1. conf[u].live BY <2>2 DEF IInv, NoUseAfterFree
      <4>2. conf[u].refcnt = 0 BY <1>0, <2>3, <3>2, <4>1, FS_EmptySet
      <4>3. conf'[u] = Freed BY <1>0, <2>2, <2>5, <4>2 DEF ReloadSucceeds
      <4>. QED BY <1>1, <3>2, <4>3 DEF Freed
    <3>3. CASE f # u
      <4>1. conf'[f] = conf[f] BY <1>0, <2>2, <2>5, <3>3 DEF ReloadSucceeds
      <4>. QED BY <1>1, <2>1, <2>2, <2>3, <3>1, <3>3, <4>1 DEF Leaked
    <3>. QED BY <3>2, <3>3
  <2>. QED BY <1>5, <2>4, <2>5
<1>6. ASSUME NEW c \in Conns, NegotiateAcquire(c) \/ ConnectAcquire(c) PROVE FALSE
  <2>1. PICK u \in Confs : u = curconf BY <1>0
  <2>2. conn[c].conf = NoConf
    BY <1>0, <1>6 DEF NegotiateAcquire, ConnectAcquire, PlaceOK
  <2>3. /\ \A d \in Conns \ {c} : conn'[d].conf = conn[d].conf
        /\ UNCHANGED <<curconf, new>>
        /\ conf' = [conf EXCEPT ![u].refcnt = @ + 1]
    BY <1>0, <1>6, <2>1 DEF NegotiateAcquire, ConnectAcquire, TakeReference
  <2>4. f # u /\ conf'[f] = conf[f] BY <1>0, <1>1, <2>1, <2>3
  <2>5. Holders(f) = {} BY <1>1, <2>2, <2>3 DEF Holders
  <2>. QED BY <1>1, <2>1, <2>3, <2>4, <2>5 DEF Leaked
<1>7. ASSUME NEW c \in Conns, Release(c) PROVE FALSE
  <2>1. PICK g \in Confs : g = conn[c].conf
    BY <1>0, <1>7 DEF Release, ConnType, PlaceOK
  <2>2. /\ lock = Nobody /\ UNCHANGED <<curconf, new>>
        /\ conn' = [conn EXCEPT ![c] = Gone]
        /\ conf' = IF conf[g].refcnt = 1 /\ g # curconf
                   THEN [conf EXCEPT ![g] = Freed]
                   ELSE [conf EXCEPT ![g].refcnt = @ - 1]
    BY <1>7, <2>1 DEF Release
  <2>3. /\ \A d \in Conns \ {c} : conn'[d].conf = conn[d].conf
        /\ conn'[c].conf = NoConf
    BY <1>0, <2>2 DEF Gone
  <2>4. CASE f = g
    <3>1. Cardinality(Holders(f)') = Cardinality(Holders(f)) - 1
      BY <2>1, <2>3, <2>4, HoldersDrop
    <3>2. Cardinality(Holders(f)') = 0 BY <1>1, FS_EmptySet
    <3>3. Cardinality(Holders(f)) \in Nat BY HoldersFinite
    <3>4. conf[g].live /\ conf[g].refcnt = 1
      <4>1. conf[g].live BY <2>1 DEF IInv, NoUseAfterFree
      <4>. QED BY <1>0, <2>4, <3>1, <3>2, <3>3, <4>1
    <3>5. conf'[g] = Freed BY <1>0, <1>1, <2>2, <2>4, <3>4
    <3>. QED BY <1>1, <2>4, <3>5 DEF Freed
  <2>5. CASE f # g
    <3>1. conf'[f] = conf[f] BY <1>0, <2>2, <2>5
    <3>2. Holders(f) = {} BY <1>1, <2>1, <2>3, <2>5 DEF Holders
    <3>. QED BY <1>1, <2>2, <3>1, <3>2 DEF Leaked
  <2>. QED BY <2>4, <2>5
<1>8. ASSUME NEW c \in Conns, NegotiateRejects(c)
      PROVE  conn[c].pc = "check" /\ conn[c].conf = f /\ conn'[c].pc = "gone"
  <2>1. PICK g \in Confs : g = conn[c].conf
    BY <1>0, <1>8 DEF NegotiateRejects, ConnType, PlaceOK
  <2>2. /\ conn[c].pc = "check" /\ UNCHANGED <<curconf, new>>
        /\ conn' = [conn EXCEPT ![c] = Gone]
        /\ conf' = [conf EXCEPT ![g].refcnt = @ - 1]
    BY <1>8, <2>1 DEF NegotiateRejects
  <2>3. /\ \A d \in Conns \ {c} : conn'[d].conf = conn[d].conf
        /\ conn'[c].pc = "gone"
    BY <1>0, <2>2 DEF Gone
  <2>4. f = g
    <3>. SUFFICES ASSUME f # g PROVE FALSE OBVIOUS
    <3>1. conf'[f] = conf[f] BY <1>0, <2>2
    <3>2. Holders(f) = {} BY <1>1, <2>1, <2>3 DEF Holders
    <3>. QED BY <1>1, <2>2, <3>1, <3>2 DEF Leaked
  <2>. QED BY <2>1, <2>2, <2>3, <2>4
<1>9. ~(Edit \/ Kill \/ Reloader \/ UNCHANGED vars)
  BY <1>2 DEF Edit, Kill, Reloader, vars
<1>. QED BY <1>3, <1>4, <1>5, <1>6, <1>7, <1>8, <1>9 DEF Next, ConnStep

\* A connection keeps one configuration handle from its start to its end.
THEOREM KeepsOneHandle == Spec => OneHandle
<1>1. IInv /\ [Next]_vars
      => [\A c \in Conns : conn[c].conf # NoConf
                          => conn'[c].conf \in {conn[c].conf, NoConf}]_vars
  BY HandleStep
<1>. QED BY <1>1, Inductive, PTL DEF OneHandle, Spec

\* The version of the current configuration never goes back.
THEOREM NeverGoesBack == Spec => NeverOlder
<1>1. IInv /\ VersionsOK /\ [Next]_vars => VersionsOK'
  BY VersionStep
<1>2. IInv /\ VersionsOK /\ [Next]_vars
      => [conf'[curconf'].version >= conf[curconf].version]_vars
  BY VersionStep
<1>. QED BY <1>1, <1>2, InitVersions, Inductive, PTL DEF NeverOlder, Spec

\* A superseded handle is freed by the last to hold it; only a failing
\* mlfi_negotiate() leaves one behind.
THEOREM OnlyRejectsLeak == Spec => LeaksOnlyOnReject
<1>1. IInv /\ [Next]_vars
      => [\A f \in Confs :
            Leaked(f)' => \/ Leaked(f)
                          \/ \E c \in Conns : conn[c].pc = "check" /\ conn[c].conf = f
                                              /\ conn'[c].pc = "gone"]_vars
  BY LeakStep
<1>. QED BY <1>1, Inductive, PTL DEF LeaksOnlyOnReject, Spec

-----------------------------------------------------------------------------
(* The restart loop of main().                                             *)

Watching == {"forked", "wait", "interrupted", "killing"}

ParentTypeOK ==
    /\ parent \in [pc : Watching \cup {"top", "check", "gone"},
                   exit : {"none", "OK", "UNAVAILABLE", "OSERR"},
                   restarts : Nat, die : BOOLEAN]
    /\ filters \in [Pids -> [st : {"none", "born", "armed", "serving",
                                   "zombie", "reaped"}, die : BOOLEAN]]
    /\ forks \in 0..MaxForks
    /\ pidfile \in BOOLEAN

\* Only the last filter, and only while the parent watches it, can be alive.
LastAlive ==
    /\ parent.pc \in Watching \cup {"check"} => forks >= 1
    /\ \A p \in Pids : Alive(p) => p = forks /\ parent.pc \in Watching

\* main() counts a restart for every filter but the one it has.
RestartsOK ==
    /\ parent.pc = "top" => parent.restarts = forks
    /\ parent.pc \in Watching \cup {"check"} => parent.restarts = forks - 1

PidfileOK == parent.pc = "gone" /\ parent.exit = "OK" => ~pidfile

ParentInv ==
    /\ ParentTypeOK /\ LastAlive /\ RestartsOK /\ PidfileOK
    /\ CountRespected

-----------------------------------------------------------------------------
\* The invariant holds before the first fork().
LEMMA InitOK == RestartInit => ParentInv
BY RestartAssumption
   DEF RestartInit, ParentInv, ParentTypeOK, LastAlive, RestartsOK, PidfileOK,
       CountRespected, Alive, Pids, Watching

\* A step of main() that forks, waits, reaps or stops.
LEMMA ForkOK == ParentInv /\ Fork => ParentInv'
<1>. SUFFICES ASSUME ParentInv, Fork PROVE ParentInv'
  OBVIOUS
<1>. USE RestartAssumption
<1>1. forks + 1 \in Pids /\ forks' = forks + 1 /\ forks \in Nat
  BY DEF ParentInv, ParentTypeOK, Fork, Pids
<1>2. ParentTypeOK' BY <1>1 DEF ParentInv, ParentTypeOK, Fork, Watching
<1>3. \A p \in Pids : ~Alive(p)
  BY DEF ParentInv, LastAlive, Fork, Watching
<1>4. \A p \in Pids \ {forks + 1} : filters'[p] = filters[p]
  BY <1>1 DEF ParentInv, ParentTypeOK, Fork
<1>5. parent'.pc = "forked" /\ filters'[forks + 1].st = "born"
      /\ parent'.restarts = parent.restarts
  BY <1>1 DEF ParentInv, ParentTypeOK, Fork
<1>6. LastAlive'
  BY <1>1, <1>3, <1>4, <1>5 DEF LastAlive, Alive, Watching
<1>8. RestartsOK' /\ PidfileOK'
  BY <1>1, <1>5 DEF ParentInv, RestartsOK, PidfileOK, Fork, Watching
<1>9. CountRespected'
  BY <1>1, <1>4, <1>5 DEF ParentInv, CountRespected
<1>. QED BY <1>2, <1>6, <1>8, <1>9 DEF ParentInv

\* A step in which no filter is forked and none comes to serve.
LEMMA QuietOK ==
    ASSUME ParentInv, ParentTypeOK', LastAlive', RestartsOK', PidfileOK',
           \A p \in Pids : filters'[p].st = "serving" => filters[p].st = "serving"
    PROVE  ParentInv'
BY DEF ParentInv, CountRespected

\* main() calls wait().
LEMMA EnterWaitOK == ParentInv /\ EnterWait => ParentInv'
<1>. SUFFICES ASSUME ParentInv, EnterWait PROVE ParentInv'
  OBVIOUS
<1>1. ParentTypeOK' BY DEF ParentInv, ParentTypeOK, EnterWait, Watching
<1>2. parent'.pc = "wait" /\ parent'.restarts = parent.restarts
  BY DEF ParentInv, ParentTypeOK, EnterWait
<1>3. LastAlive' /\ RestartsOK' /\ PidfileOK'
  BY <1>2 DEF ParentInv, LastAlive, RestartsOK, PidfileOK, Alive, EnterWait, Watching
<1>. QED BY <1>1, <1>3, QuietOK DEF EnterWait

\* wait() returns: the filter that ended was the only one.
LEMMA ReapOK == ParentInv /\ Reap => ParentInv'
<1>. SUFFICES ASSUME ParentInv, Reap PROVE ParentInv'
  OBVIOUS
<1>. USE RestartAssumption
<1>1. forks \in Pids /\ forks \in Nat
  BY DEF ParentInv, ParentTypeOK, LastAlive, Reap, Watching, Pids
<1>2. ParentTypeOK' BY <1>1 DEF ParentInv, ParentTypeOK, Reap, Watching
<1>3. parent'.pc = "check" /\ parent'.restarts = parent.restarts
  BY DEF ParentInv, ParentTypeOK, Reap
<1>4. /\ filters'[forks].st = "reaped"
      /\ \A p \in Pids \ {forks} : filters'[p] = filters[p]
  BY <1>1 DEF ParentInv, ParentTypeOK, Reap
<1>5. \A p \in Pids : ~Alive(p)'
  BY <1>4 DEF ParentInv, LastAlive, Alive, Reap
<1>6. LastAlive' /\ RestartsOK' /\ PidfileOK'
  BY <1>1, <1>3, <1>5 DEF ParentInv, LastAlive, RestartsOK, PidfileOK, Reap, Watching
<1>. QED BY <1>2, <1>4, <1>6, QuietOK

\* A signal has interrupted wait(): what Killed leaves of the filter, if it is
\* alive, is the same filter.
LEMMA InterruptedOK == ParentInv /\ Interrupted => ParentInv'
<1>. SUFFICES ASSUME ParentInv, Interrupted PROVE ParentInv'
  OBVIOUS
<1>. USE RestartAssumption
<1>1. forks \in Pids /\ forks \in Nat
  BY DEF ParentInv, ParentTypeOK, LastAlive, Interrupted, Watching, Pids
<1>2. /\ filters'[forks] = Killed(filters[forks])
      /\ \A p \in Pids \ {forks} : filters'[p] = filters[p]
  BY <1>1 DEF ParentInv, ParentTypeOK, Interrupted
<1>3. /\ Killed(filters[forks]).st \in {filters[forks].st, "zombie"}
      /\ Killed(filters[forks]) \in [st : {"none", "born", "armed", "serving",
                                           "zombie", "reaped"}, die : BOOLEAN]
  BY <1>1 DEF ParentInv, ParentTypeOK, Killed
<1>4. ParentTypeOK' BY <1>1, <1>3 DEF ParentInv, ParentTypeOK, Interrupted, Watching
<1>5. parent'.pc = "killing" /\ parent'.restarts = parent.restarts
  BY DEF ParentInv, ParentTypeOK, Interrupted
<1>6. LastAlive'
  BY <1>1, <1>2, <1>5 DEF ParentInv, LastAlive, Alive, Interrupted, Watching
<1>7. RestartsOK' /\ PidfileOK'
  BY <1>5 DEF ParentInv, RestartsOK, PidfileOK, Interrupted, Watching
<1>. QED BY <1>2, <1>3, <1>4, <1>6, <1>7, QuietOK

\* The parent leaves after the filter it has told to stop.
LEMMA StoppedOK == ParentInv /\ Stopped => ParentInv'
<1>. SUFFICES ASSUME ParentInv, Stopped PROVE ParentInv'
  OBVIOUS
<1>. USE RestartAssumption
<1>1. forks \in Pids /\ forks \in Nat
  BY DEF ParentInv, ParentTypeOK, LastAlive, Stopped, Watching, Pids
<1>2. ParentTypeOK' BY <1>1 DEF ParentInv, ParentTypeOK, Stopped, Exit, Watching
<1>3. parent'.pc = "gone" BY DEF ParentInv, ParentTypeOK, Stopped, Exit
<1>4. /\ filters'[forks].st = "reaped"
      /\ \A p \in Pids \ {forks} : filters'[p] = filters[p]
  BY <1>1 DEF ParentInv, ParentTypeOK, Stopped
<1>5. \A p \in Pids : ~Alive(p)'
  BY <1>4 DEF ParentInv, LastAlive, Alive
<1>6. LastAlive' /\ RestartsOK' /\ PidfileOK'
  BY <1>3, <1>5 DEF LastAlive, RestartsOK, PidfileOK, Stopped, Watching
<1>. QED BY <1>2, <1>4, <1>6, QuietOK

\* The limits, after a filter's end: the parent leaves or counts a restart.
LEMMA CheckOK == ParentInv /\ Check => ParentInv'
<1>. SUFFICES ASSUME ParentInv, Check PROVE ParentInv'
  OBVIOUS
<1>. USE RestartAssumption
<1>1. \A p \in Pids : ~Alive(p)'
  BY DEF ParentInv, LastAlive, Alive, Check, Watching
<1>2. forks \in Nat /\ parent.restarts = forks - 1
  BY DEF ParentInv, ParentTypeOK, RestartsOK, Check
<1>3. CASE Exit("UNAVAILABLE")
  <2>1. ParentTypeOK' BY <1>3 DEF ParentInv, ParentTypeOK, Check, Exit, Watching
  <2>2. parent'.pc = "gone" /\ parent'.exit = "UNAVAILABLE"
    BY <1>3 DEF ParentInv, ParentTypeOK, Exit
  <2>3. LastAlive' /\ RestartsOK' /\ PidfileOK'
    BY <1>1, <2>2 DEF LastAlive, RestartsOK, PidfileOK, Watching
  <2>. QED BY <2>1, <2>3, QuietOK DEF Check
<1>4. CASE parent' = [parent EXCEPT !.pc = "top", !.restarts = Counted(@)]
  <2>0. parent' = [parent EXCEPT !.pc = "top", !.restarts = forks]
    <3>1. Counted(parent.restarts) = forks BY <1>2 DEF Counted
    <3>. QED BY <1>4, <3>1
  <2>1. ParentTypeOK'
    <3>1. UNCHANGED <<filters, forks, pidfile>> BY DEF Check
    <3>. QED BY <1>2, <2>0, <3>1 DEF ParentInv, ParentTypeOK, Watching
  <2>2. parent'.pc = "top" /\ parent'.restarts = forks
    BY <2>0 DEF ParentInv, ParentTypeOK
  <2>3. LastAlive' /\ RestartsOK' /\ PidfileOK'
    BY <1>1, <1>2, <2>2 DEF LastAlive, RestartsOK, PidfileOK, Check, Watching
  <2>. QED BY <2>1, <2>3, QuietOK DEF Check
<1>. QED BY <1>3, <1>4 DEF Check

\* dkimf_socket_cleanup() or fork() fails: there is no filter at that time.
LEMMA GiveUpOK == ParentInv /\ GiveUp => ParentInv'
<1>. SUFFICES ASSUME ParentInv, GiveUp PROVE ParentInv'
  OBVIOUS
<1>1. ParentTypeOK' BY DEF ParentInv, ParentTypeOK, GiveUp, Exit, Watching
<1>2. parent'.pc = "gone" /\ parent'.exit # "OK"
  BY DEF ParentInv, ParentTypeOK, GiveUp, Exit
<1>3. \A p \in Pids : ~Alive(p)'
  BY DEF ParentInv, LastAlive, Alive, GiveUp, Watching
<1>4. LastAlive' /\ RestartsOK' /\ PidfileOK'
  BY <1>2, <1>3 DEF LastAlive, RestartsOK, PidfileOK, Watching
<1>. QED BY <1>1, <1>4, QuietOK DEF GiveUp

\* A signal moves the parent from one place where it watches its filter to
\* another, or nowhere.
LEMMA SignalOK == ParentInv /\ Signal => ParentInv'
<1>. SUFFICES ASSUME ParentInv, Signal PROVE ParentInv'
  OBVIOUS
<1>1. ParentTypeOK' BY DEF ParentInv, ParentTypeOK, Signal, Watching
<1>2. /\ parent'.restarts = parent.restarts /\ parent.pc # "gone"
      /\ \/ parent'.pc = parent.pc
         \/ parent.pc = "wait" /\ parent'.pc = "interrupted"
  BY DEF ParentInv, ParentTypeOK, Signal
<1>3. LastAlive' /\ RestartsOK' /\ PidfileOK'
  BY <1>2 DEF ParentInv, LastAlive, RestartsOK, PidfileOK, Alive, Signal, Watching
<1>. QED BY <1>1, <1>3, QuietOK DEF Signal

-----------------------------------------------------------------------------
\* A living filter changes its state; one that serves has passed the check of
\* the count it inherited.
LEMMA FilterOK ==
    ASSUME ParentInv, NEW p \in Pids, Arm(p) \/ Serve(p) \/ Crash(p)
    PROVE  ParentInv'
<1>. USE RestartAssumption
<1>1. /\ p = forks /\ parent.pc \in Watching
      /\ UNCHANGED <<parent, forks, list, idx, pidfile, now>>
  BY DEF ParentInv, LastAlive, Alive, Arm, Serve, Crash, FilterBecomes
<1>2. PICK st \in {"armed", "serving", "zombie"} :
        filters' = [filters EXCEPT ![p].st = st]
  BY Zenon DEF Arm, Serve, Crash, FilterBecomes
<1>3. ParentTypeOK' BY <1>1, <1>2 DEF ParentInv, ParentTypeOK
<1>4. filters'[p].st = st /\ \A q \in Pids \ {p} : filters'[q] = filters[q]
  BY <1>2 DEF ParentInv, ParentTypeOK
<1>5. LastAlive' BY <1>1, <1>4 DEF ParentInv, LastAlive, Alive
<1>6. RestartsOK' /\ PidfileOK' BY <1>1 DEF ParentInv, RestartsOK, PidfileOK
<1>7. ASSUME st = "serving", MaxRestarts > 0 PROVE p <= MaxRestarts + 1
  <2>1. Serve(p) \/ filters[p].st = "serving"
    BY <1>4, <1>7 DEF Arm, Crash, FilterBecomes, ParentInv, ParentTypeOK
  <2>2. CASE filters[p].st = "serving"
    BY <1>7, <2>2 DEF ParentInv, CountRespected
  <2>3. CASE Serve(p)
    <3>1. ~CountReached(parent.restarts)
      BY <1>4, <1>7, <2>3 DEF Serve, FilterBecomes, ParentInv, ParentTypeOK
    <3>2. parent.restarts = forks - 1 /\ forks \in Nat
      BY <1>1 DEF ParentInv, ParentTypeOK, RestartsOK
    <3>. QED BY <1>1, <1>7, <3>1, <3>2 DEF CountReached
  <2>. QED BY <2>1, <2>2, <2>3
<1>8. CountRespected' BY <1>4, <1>7 DEF ParentInv, CountRespected
<1>. QED BY <1>3, <1>5, <1>6, <1>8 DEF ParentInv

\* Every step of parent, filters, signals and clock preserves the invariant.
LEMMA StepOK == ParentInv /\ [RestartNext]_restartVars => ParentInv'
<1>. SUFFICES ASSUME ParentInv, [RestartNext]_restartVars PROVE ParentInv'
  OBVIOUS
<1>1. CASE Parent
  BY <1>1, ForkOK, EnterWaitOK, ReapOK, InterruptedOK, StoppedOK, CheckOK
     DEF Parent
<1>2. CASE GiveUp BY <1>2, GiveUpOK
<1>3. CASE Signal BY <1>3, SignalOK
<1>4. CASE Tick \/ Ended \/ UNCHANGED restartVars
  BY <1>4 DEF Tick, Ended, restartVars, ParentInv, ParentTypeOK, LastAlive, RestartsOK, PidfileOK,
              CountRespected, Alive
<1>5. CASE \E p \in Pids : Arm(p) \/ Serve(p) \/ Crash(p)
  BY <1>5, FilterOK
<1>. QED BY <1>1, <1>2, <1>3, <1>4, <1>5 DEF RestartNext

\* The parent's place tells which filter is alive, and its count of restarts is
\* the number of filters it has replaced.
THEOREM ParentInductive == RestartSpec => []ParentInv
<1>. QED BY InitOK, StepOK, PTL DEF RestartSpec

\* The parent never has two filters: whatever signals reach it and however its
\* filters end, main() forks no other before the last one is dead.
THEOREM OneFilterAlways == RestartSpec => []OneFilter
<1>1. ParentInv => OneFilter
  <2>. SUFFICES ASSUME ParentInv PROVE Cardinality({p \in Pids : Alive(p)}) <= 1
    BY DEF OneFilter
  <2>1. {p \in Pids : Alive(p)} \subseteq {forks}
    BY DEF ParentInv, LastAlive
  <2>2. IsFiniteSet({forks}) /\ Cardinality({forks}) = 1
    BY FS_Singleton
  <2>3. /\ Cardinality({p \in Pids : Alive(p)}) \in Nat
        /\ Cardinality({p \in Pids : Alive(p)}) <= Cardinality({forks})
    BY <2>1, <2>2, FS_Subset, FS_CardinalityType
  <2>. QED BY <2>2, <2>3
<1>. QED BY <1>1, ParentInductive, PTL

\* When main() has returned in the parent no filter is left behind, nor the pid
\* file after a stop that was asked for.
THEOREM NoOrphanAlways == RestartSpec => []NoOrphan
<1>1. ParentInv => NoOrphan
  BY DEF ParentInv, LastAlive, PidfileOK, NoOrphan, Watching
<1>. QED BY <1>1, ParentInductive, PTL

\* AutoRestartCount is respected: main() never has a filter serve that is more
\* than the first and MaxRestarts restarts of it.
THEOREM CountRespectedAlways == RestartSpec => []CountRespected
<1>1. ParentInv => CountRespected BY DEF ParentInv
<1>. QED BY <1>1, ParentInductive, PTL
=============================================================================
