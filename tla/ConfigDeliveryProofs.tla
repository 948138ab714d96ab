------------------------ MODULE ConfigDeliveryProofs ------------------------
(***************************************************************************)
(* Proofs about ConfigDelivery, for any pods, kinds and number of changes. *)
(***************************************************************************)
EXTENDS ConfigDelivery, TLAPS

\* What is held of the copied part of the cluster's objects is at most what is
\* there, and a pod holds no ConfigMap that does not exist.  Only a pod that is up reconciles.
Known ==
    /\ \A k \in Kinds : cm.data[k] <= Input(cluster[k])
    /\ \A p \in Pods, k \in Kinds : /\ Input(cached[p][k]) <= Input(cluster[k])
                                    /\ got[p][k] <= Input(cached[p][k])
    /\ \A p \in Pods : cmCached[p] => cm.exists
    /\ \A p \in Pods : status[p] # "up" => next[p] = 0

\* One pod at a time: what it has cached, and listed so far, is at least what
\* the ConfigMap has.
Ahead ==
    ~mixed =>
        /\ \A p, q \in Pods : status[p] = "up" /\ status[q] = "up" => p = q
        /\ \A p \in Pods : status[p] = "up" =>
            /\ \A k \in Kinds : cm.data[k] <= Input(cached[p][k])
            /\ \A i \in 1 .. Len(Lists) :
                i < next[p] => cm.data[Lists[i]] <= got[p][Lists[i]]

\* What main or check has read is what the file holds, unless the file was
\* written since, and then newer or missed will say so.  A check goes on only
\* with a file that is newer.
Read ==
    /\ proc.pc \in {"stat", "read"} => newer
    /\ proc.pc = "loaded" /\ ~missed => proc.cfg = file.data
    /\ proc.pc = "read" /\ ~rewritten => proc.new = file.data

IndInv == OperatorTypeOK /\ WatcherTypeOK(Content) /\ Known /\ Ahead /\ Read /\ NothingOverlooked

-----------------------------------------------------------------------------

LEMMA ListsType == /\ Len(Lists) \in Nat /\ Len(Lists) >= 1
                   /\ Lists[Len(Lists)] = "gateways" /\ "gateways" \in Kinds
                   /\ \A i \in 1 .. Len(Lists) : Lists[i] \in Kinds
                   /\ GET = Len(Lists) + 1 /\ WRITE = Len(Lists) + 2
<1>1. OtherKinds \in Seq(STRING)  BY OperatorAssumption
<1>2. Len(Lists) = Len(OtherKinds) + 1 /\ Len(OtherKinds) \in Nat
  BY <1>1 DEF Lists
<1>3. Lists[Len(Lists)] = "gateways"  BY <1>1, <1>2 DEF Lists
<1>4. \A i \in 1 .. Len(Lists) : Lists[i] \in Kinds  BY DEF Kinds
<1>5. QED  BY <1>2, <1>3, <1>4 DEF GET, WRITE

LEMMA NothingThere ==
    /\ None \in Content /\ \A k \in Kinds : None[k] = 0
    /\ NoObjects \in Objects /\ \A k \in Kinds : Input(NoObjects[k]) = 0
BY DEF None, Content, NoObjects, Objects, Blank, Parts, Input

LEMMA ConfigInit == Init => IndInv
<1>1. SUFFICES ASSUME Init PROVE IndInv  OBVIOUS
<1>2. /\ None \in Content /\ \A k \in Kinds : None[k] = 0
      /\ NoObjects \in Objects /\ \A k \in Kinds : Input(NoObjects[k]) = 0
  BY NothingThere
<1>3. OperatorTypeOK
  <2>1. next \in [Pods -> 0 .. WRITE]  BY <1>1, ListsType DEF Init, OperatorInit
  <2>2. QED  BY <1>1, <1>2, <2>1, Zenon DEF Init, OperatorInit, OperatorTypeOK
<1>4. WatcherTypeOK(Content)
  BY <1>1, <1>2 DEF Init, WatcherInit, WatcherTypeOK
<1>5. Known /\ Ahead
  BY <1>1, <1>2, ListsType DEF Init, OperatorInit, Known, Ahead
<1>6. Read /\ NothingOverlooked
  BY <1>1 DEF Init, WatcherInit, Read, NothingOverlooked
<1>7. QED  BY <1>3, <1>4, <1>5, <1>6 DEF IndInv

-----------------------------------------------------------------------------
(* Steps of the watcher and of the kubelet *)

LEMMA WatcherStep ==
    ASSUME IndInv, WatcherNext \/ Project
    PROVE  WatcherTypeOK(Content)' /\ Read' /\ NothingOverlooked'
<1> USE DEF IndInv, WatcherTypeOK, Read, NothingOverlooked
<1>1. CASE LoadAtStart  BY <1>1 DEF LoadAtStart
<1>2. CASE NewWatcher  BY <1>2 DEF NewWatcher
<1>3. CASE Stat  BY <1>3 DEF Stat
<1>4. CASE Load  BY <1>4 DEF Load
<1>5. CASE LoadFails  BY <1>5 DEF LoadFails
<1>6. CASE Swap  BY <1>6 DEF Swap
<1>7. CASE Exit  BY <1>7 DEF Exit
<1>8. CASE Project  BY <1>8 DEF Project, WriteFile, OperatorTypeOK
<1>9. QED  BY <1>1, <1>2, <1>3, <1>4, <1>5, <1>6, <1>7, <1>8 DEF WatcherNext

LEMMA WatcherStutters ==
    ASSUME IndInv, UNCHANGED wvars
    PROVE  WatcherTypeOK(Content)' /\ Read' /\ NothingOverlooked'
BY DEF IndInv, wvars, WatcherTypeOK, Read, NothingOverlooked

-----------------------------------------------------------------------------
(* Steps of the operator *)

LEMMA OperatorStutters ==
    ASSUME IndInv, UNCHANGED opvars
    PROVE  OperatorTypeOK' /\ Known' /\ Ahead'
BY DEF IndInv, opvars, OperatorTypeOK, Known, Ahead

\* Facts about contents that the steps below need.
LEMMA Contents ==
    ASSUME OperatorTypeOK
    PROVE  /\ None \in Content /\ \A k \in Kinds : None[k] = 0
           /\ NoObjects \in Objects /\ \A k \in Kinds : Input(NoObjects[k]) = 0
           /\ \A k \in Kinds : Input(cluster[k]) \in Nat /\ cm.data[k] \in Nat
           /\ \A p \in Pods : cached[p] \in Objects /\ got[p] \in Content
           /\ \A p \in Pods, k \in Kinds : Input(cached[p][k]) \in Nat /\ got[p][k] \in Nat
           /\ \A p \in Pods : next[p] \in Nat
BY NothingThere, ListsType DEF OperatorTypeOK, Content, Objects, Parts, Input

LEMMA EditStep ==
    ASSUME IndInv, NEW k0 \in Kinds, NEW part \in Parts, Edit(k0, part)
    PROVE  OperatorTypeOK' /\ Known' /\ Ahead'
<1>1. /\ cluster' \in Objects
      /\ \A k \in Kinds : Input(cluster[k]) <= Input(cluster'[k])
  BY DEF IndInv, OperatorTypeOK, Objects, Parts, Input, Edit
<1>2. OperatorTypeOK'  BY <1>1 DEF IndInv, OperatorTypeOK, Edit
<1>3. \A k \in Kinds : /\ Input(cluster[k]) \in Nat /\ Input(cluster'[k]) \in Nat
                        /\ cm.data[k] \in Nat
  BY <1>1, Contents DEF IndInv, Objects, Parts, Input
<1>4. Known'  BY <1>1, <1>3, Contents DEF IndInv, Known, Edit
<1>5. Ahead'  BY DEF IndInv, Ahead, Edit
<1>6. QED  BY <1>2, <1>4, <1>5

LEMMA StartStep ==
    ASSUME IndInv, NEW p0 \in Pods, Start(p0)
    PROVE  OperatorTypeOK' /\ Known' /\ Ahead'
<1>1. OperatorTypeOK'  BY DEF IndInv, OperatorTypeOK, Start
<1>2. Known'  BY Contents DEF IndInv, OperatorTypeOK, Known, Start
<1>3. Ahead'
  <2>1. SUFFICES ASSUME ~mixed' PROVE Ahead'  BY DEF Ahead
  <2>2. ~mixed /\ \A q \in Pods : status[q] # "up"  BY <2>1 DEF Start
  <2>3. \A q \in Pods : status'[q] = "up" => q = p0
    BY <2>2 DEF IndInv, OperatorTypeOK, Start
  <2>4. cached'[p0] = cluster /\ next'[p0] = 0 /\ cm' = cm
    BY DEF IndInv, OperatorTypeOK, Known, Start
  <2>5. QED  BY <2>3, <2>4, ListsType DEF IndInv, Known, Ahead
<1>4. QED  BY <1>1, <1>2, <1>3

LEMMA KillStep ==
    ASSUME IndInv, NEW p0 \in Pods, Kill(p0)
    PROVE  OperatorTypeOK' /\ Known' /\ Ahead'
<1>1. OperatorTypeOK'
  BY Contents, ListsType DEF IndInv, OperatorTypeOK, Kill, Return
<1>2. Known'  BY Contents DEF IndInv, OperatorTypeOK, Known, Kill, Return
<1>3. \A q \in Pods : status'[q] = "up" => /\ status[q] = "up" /\ q # p0
  BY DEF IndInv, OperatorTypeOK, Kill
<1>4. \A q \in Pods : q # p0 =>
        cached'[q] = cached[q] /\ got'[q] = got[q] /\ next'[q] = next[q]
  BY DEF IndInv, OperatorTypeOK, Kill, Return
<1>5. Ahead'  BY <1>3, <1>4, ListsType DEF IndInv, Ahead, Kill
<1>6. QED  BY <1>1, <1>2, <1>5

LEMMA ObserveStep ==
    ASSUME IndInv, NEW p0 \in Pods, NEW k0 \in Kinds, Observe(p0, k0)
    PROVE  OperatorTypeOK' /\ Known' /\ Ahead'
<1>1. cached' \in [Pods -> Objects]
  BY Contents DEF IndInv, OperatorTypeOK, Observe, Objects
<1>2. OperatorTypeOK'
  BY <1>1, Zenon DEF IndInv, OperatorTypeOK, Observe
<1>3. \A p \in Pods, k \in Kinds : /\ Input(cached[p][k]) <= Input(cached'[p][k])
                                  /\ Input(cached'[p][k]) <= Input(cluster[k])
  BY Contents DEF IndInv, OperatorTypeOK, Known, Observe, Objects
<1>4. \A p \in Pods, k \in Kinds : Input(cached'[p][k]) \in Nat
  BY <1>1 DEF Objects, Parts, Input
<1>5. Known'  BY <1>3, <1>4, Contents DEF IndInv, Known, Observe
<1>6. Ahead'
  <2>1. ASSUME NEW p \in Pods, NEW k \in Kinds, cm.data[k] <= Input(cached[p][k])
        PROVE  cm.data[k] <= Input(cached'[p][k])
    <3>1. cm.data[k] \in Nat /\ Input(cached[p][k]) \in Nat /\ Input(cached'[p][k]) \in Nat
      BY <1>4, Contents DEF IndInv
    <3>2. Input(cached[p][k]) <= Input(cached'[p][k])  BY <1>3
    <3>3. QED  BY <2>1, <3>1, <3>2
  <2>2. UNCHANGED <<cm, status, next, got, mixed>>  BY DEF Observe
  <2>3. QED  BY <2>1, <2>2 DEF IndInv, Ahead
<1>7. QED  BY <1>2, <1>5, <1>6

LEMMA ObserveConfigMapStep ==
    ASSUME IndInv, NEW p0 \in Pods, ObserveConfigMap(p0)
    PROVE  OperatorTypeOK' /\ Known' /\ Ahead'
<1>1. OperatorTypeOK'  BY DEF IndInv, OperatorTypeOK, ObserveConfigMap
<1>2. Known'  BY DEF IndInv, OperatorTypeOK, Known, ObserveConfigMap
<1>3. Ahead'  BY DEF IndInv, Ahead, ObserveConfigMap
<1>4. QED  BY <1>1, <1>2, <1>3

LEMMA ReconcileStep ==
    ASSUME IndInv, NEW p0 \in Pods, Reconcile(p0)
    PROVE  OperatorTypeOK' /\ Known' /\ Ahead'
<1>1. next' \in [Pods -> 0 .. WRITE]
  BY ListsType DEF IndInv, OperatorTypeOK, Reconcile
<1>2. OperatorTypeOK'  BY <1>1, Zenon DEF IndInv, OperatorTypeOK, Reconcile
<1>3. Known'  BY DEF IndInv, OperatorTypeOK, Known, Reconcile
<1>4. next'[p0] = 1 /\ \A q \in Pods : q # p0 => next'[q] = next[q]
  BY DEF IndInv, OperatorTypeOK, Reconcile
<1>5. Ahead'  BY <1>4, ListsType DEF IndInv, Ahead, Reconcile
<1>6. QED  BY <1>2, <1>3, <1>5

LEMMA ListStep ==
    ASSUME IndInv, NEW p0 \in Pods, List(p0)
    PROVE  OperatorTypeOK' /\ Known' /\ Ahead'
<1> DEFINE i0 == next[p0]
<1>1. i0 \in 1 .. Len(Lists) /\ Lists[i0] \in Kinds /\ status[p0] = "up"
  BY ListsType DEF List, Listing
<1>2. got' \in [Pods -> Content]
  BY <1>1, Contents DEF IndInv, OperatorTypeOK, List, Content
<1>3. next' \in [Pods -> 0 .. WRITE]
  BY <1>1, ListsType DEF IndInv, OperatorTypeOK, List
<1>4. OperatorTypeOK'  BY <1>2, <1>3, Zenon DEF IndInv, OperatorTypeOK, List
<1>5. \A p \in Pods, k \in Kinds :
        \/ got'[p][k] = got[p][k] /\ ~(p = p0 /\ k = Lists[i0])
        \/ p = p0 /\ k = Lists[i0] /\ got'[p][k] = Input(cached[p][k])
  BY <1>1 DEF IndInv, OperatorTypeOK, List, Content
<1>6. Known'
  <2>1. \A p \in Pods, k \in Kinds : got'[p][k] <= Input(cached[p][k])
    BY <1>5, Contents DEF IndInv, Known
  <2>2. \A p \in Pods : status[p] # "up" => next'[p] = 0
    BY <1>1 DEF IndInv, OperatorTypeOK, Known, List
  <2>3. QED  BY <2>1, <2>2 DEF IndInv, Known, List
<1>7. Ahead'
  <2>1. next'[p0] = i0 + 1 /\ \A q \in Pods : q # p0 => next'[q] = next[q]
    BY DEF IndInv, OperatorTypeOK, List
  <2>2. SUFFICES ASSUME ~mixed, NEW p \in Pods, status[p] = "up",
                        NEW i \in 1 .. Len(Lists), i < next'[p]
                 PROVE  cm.data[Lists[i]] <= got'[p][Lists[i]]
    BY DEF IndInv, Ahead, List
  <2>3. Lists[i] \in Kinds  BY ListsType
  <2>4. CASE p = p0 /\ Lists[i] = Lists[i0]
    BY <2>2, <2>3, <2>4, <1>5 DEF IndInv, Ahead
  <2>5. CASE ~(p = p0 /\ Lists[i] = Lists[i0])
    <3>1. got'[p][Lists[i]] = got[p][Lists[i]]  BY <2>3, <2>5, <1>5
    <3>2. i < next[p]  BY <2>1, <2>2, <2>5, <1>1, ListsType
    <3>3. QED  BY <2>2, <3>1, <3>2 DEF IndInv, Ahead
  <2>6. QED  BY <2>4, <2>5
<1>8. QED  BY <1>4, <1>6, <1>7

\* Returning from Reconcile, with the ConfigMap as it is.
LEMMA ReturnStep ==
    ASSUME IndInv, NEW p0 \in Pods, Return(p0),
           queued' \in [Pods -> BOOLEAN], mixed' = mixed,
           UNCHANGED <<cluster, cm, status, cached, cmCached>>
    PROVE  OperatorTypeOK' /\ Known' /\ Ahead'
<1>1. OperatorTypeOK'
  <2>1. next' \in [Pods -> 0 .. WRITE] /\ got' \in [Pods -> Content]
    BY Contents, ListsType DEF IndInv, OperatorTypeOK, Return
  <2>2. QED  BY <2>1 DEF IndInv, OperatorTypeOK, Return
<1>2. Known'  BY Contents DEF IndInv, OperatorTypeOK, Known, Return
<1>3. next'[p0] = 0 /\ \A q \in Pods : q # p0 => next'[q] = next[q] /\ got'[q] = got[q]
  BY DEF IndInv, OperatorTypeOK, Return
<1>4. Ahead'  BY <1>3, ListsType DEF IndInv, Ahead
<1>5. QED  BY <1>1, <1>2, <1>4

LEMMA ListFailsStep ==
    ASSUME IndInv, NEW p0 \in Pods, ListFails(p0)
    PROVE  OperatorTypeOK' /\ Known' /\ Ahead'
<1>1. CASE Failed(p0) /\ UNCHANGED mixed
  <2>1. queued' \in [Pods -> BOOLEAN]  BY <1>1 DEF IndInv, OperatorTypeOK, Failed
  <2>2. QED  BY <1>1, <2>1, ReturnStep DEF ListFails, Failed
<1>2. CASE /\ got' = [got EXCEPT ![p0]["gateways"] = 0]
           /\ next' = [next EXCEPT ![p0] = @ + 1]
           /\ mixed' = TRUE
           /\ UNCHANGED <<queued, based>>
  <2>1. next[p0] \in 1 .. Len(Lists) /\ status[p0] = "up"  BY DEF ListFails, Listing
  <2>2. got' \in [Pods -> Content]
    BY <1>2, ListsType, OperatorAssumption DEF IndInv, OperatorTypeOK, Content
  <2>3. next' \in [Pods -> 0 .. WRITE]
    BY <1>2, <2>1, ListsType DEF IndInv, OperatorTypeOK
  <2>4. OperatorTypeOK'  BY <1>2, <2>2, <2>3, Zenon DEF IndInv, OperatorTypeOK, ListFails
  <2>5. \A p \in Pods, k \in Kinds : got'[p][k] = got[p][k] \/ got'[p][k] = 0
    BY <1>2 DEF IndInv, OperatorTypeOK, Content
  <2>6. \A p \in Pods : status[p] # "up" => next'[p] = 0
    BY <1>2, <2>1 DEF IndInv, OperatorTypeOK, Known
  <2>7. Known'  BY <2>5, <2>6, Contents DEF IndInv, Known, ListFails
  <2>8. Ahead'  BY <1>2 DEF Ahead
  <2>9. QED  BY <2>4, <2>7, <2>8
<1>3. QED  BY <1>1, <1>2 DEF ListFails

LEMMA GetStep ==
    ASSUME IndInv, NEW p0 \in Pods, Get(p0) \/ GetFails(p0)
    PROVE  OperatorTypeOK' /\ Known' /\ Ahead'
<1>1. status[p0] = "up" /\ next[p0] = GET /\ next' = [next EXCEPT ![p0] = WRITE]
  BY DEF Get, GetFails
<1>2. UNCHANGED <<cluster, cm, status, cached, cmCached, queued, got, mixed>>
  BY DEF Get, GetFails
<1>3. next' \in [Pods -> 0 .. WRITE]  BY <1>1, ListsType DEF IndInv, OperatorTypeOK
<1>4. based' \in [Pods -> BOOLEAN] /\ \A p \in Pods : based'[p] => cm.exists
  BY DEF IndInv, OperatorTypeOK, Known, Get, GetFails
<1>5. OperatorTypeOK'  BY <1>2, <1>3, <1>4, Zenon DEF IndInv, OperatorTypeOK
<1>6. next'[p0] = WRITE /\ \A q \in Pods : q # p0 => next'[q] = next[q]
  BY <1>1 DEF IndInv, OperatorTypeOK
<1>7. Known'  BY <1>1, <1>2, <1>6 DEF IndInv, Known
<1>8. Ahead'
  <2>1. SUFFICES ASSUME ~mixed, NEW p \in Pods, status[p] = "up",
                        NEW i \in 1 .. Len(Lists), i < next'[p]
                 PROVE  cm.data[Lists[i]] <= got[p][Lists[i]]
    BY <1>2 DEF IndInv, Ahead
  <2>2. i < next[p]  BY <2>1, <1>1, <1>6, ListsType
  <2>3. QED  BY <2>1, <2>2 DEF IndInv, Ahead
<1>9. QED  BY <1>5, <1>7, <1>8

\* A write that the API server takes, answered or not, does not go back.
LEMMA WrittenStep ==
    ASSUME IndInv, NEW p0 \in Pods, status[p0] = "up", next[p0] = WRITE, Written(p0),
           next' = [next EXCEPT ![p0] = 0], got' = [got EXCEPT ![p0] = None],
           queued' \in [Pods -> BOOLEAN],
           UNCHANGED <<cluster, status, cached, mixed>>
    PROVE  /\ OperatorTypeOK' /\ Known' /\ Ahead'
           /\ ~mixed => \A k \in Kinds : cm.data[k] <= cm'.data[k]
<1>1. cm' = [exists |-> TRUE, data |-> got[p0]]  BY DEF Written
<1>2. cm'.data = got[p0] /\ cm'.exists  BY <1>1
<1>3. cmCached' \in [Pods -> BOOLEAN] /\ based' \in [Pods -> BOOLEAN]
  BY DEF IndInv, OperatorTypeOK, Written
<1>4. OperatorTypeOK'
  <2>1. next' \in [Pods -> 0 .. WRITE] /\ got' \in [Pods -> Content]
    BY Contents, ListsType DEF IndInv, OperatorTypeOK
  <2>2. cm' \in [exists : BOOLEAN, data : Content]
    BY <1>1, Contents DEF IndInv, OperatorTypeOK
  <2>3. QED  BY <1>2, <1>3, <2>1, <2>2, Zenon DEF IndInv, OperatorTypeOK
<1>5. next'[p0] = 0 /\ got'[p0] = None
      /\ \A q \in Pods : q # p0 => next'[q] = next[q] /\ got'[q] = got[q]
  BY DEF IndInv, OperatorTypeOK
<1>6. Known'
  <2>1. \A k \in Kinds : cm'.data[k] <= Input(cluster[k])
    BY <1>2, Contents DEF IndInv, Known
  <2>2. \A p \in Pods, k \in Kinds : got'[p][k] <= Input(cached[p][k])
    BY <1>5, Contents DEF IndInv, Known
  <2>3. \A p \in Pods : status[p] # "up" => next'[p] = 0
    BY <1>5 DEF IndInv, Known
  <2>4. QED  BY <1>2, <2>1, <2>2, <2>3 DEF IndInv, Known
<1>7. ~mixed => \A k \in Kinds : cm.data[k] <= got[p0][k]
  <2>1. SUFFICES ASSUME ~mixed, NEW k \in Kinds PROVE cm.data[k] <= got[p0][k]
    OBVIOUS
  <2>2. PICK i \in 1 .. Len(Lists) : k = Lists[i]  BY DEF Kinds
  <2>3. i < next[p0]  BY ListsType
  <2>4. QED  BY <2>1, <2>2, <2>3 DEF IndInv, Ahead
<1>8. Ahead'
  <2>1. SUFFICES ASSUME ~mixed PROVE Ahead'  BY DEF Ahead
  <2>2. \A q \in Pods : status[q] = "up" => q = p0  BY <2>1 DEF IndInv, Ahead
  <2>3. \A k \in Kinds : cm'.data[k] <= Input(cached[p0][k])  BY <1>2 DEF IndInv, Known
  <2>4. QED  BY <1>5, <2>2, <2>3, ListsType DEF Ahead
<1>9. QED  BY <1>2, <1>4, <1>6, <1>7, <1>8

LEMMA WriteStep ==
    ASSUME IndInv, NEW p0 \in Pods, Write(p0) \/ WriteUnanswered(p0)
    PROVE  /\ OperatorTypeOK' /\ Known' /\ Ahead'
           /\ ~mixed => \A k \in Kinds : cm.data[k] <= cm'.data[k]
<1>1. queued' \in [Pods -> BOOLEAN]
  BY DEF IndInv, OperatorTypeOK, Write, WriteUnanswered
<1>2. QED  BY <1>1, WrittenStep DEF Write, WriteUnanswered

LEMMA WriteFailsStep ==
    ASSUME IndInv, NEW p0 \in Pods, WriteFails(p0)
    PROVE  OperatorTypeOK' /\ Known' /\ Ahead'
<1>1. queued' \in [Pods -> BOOLEAN]
  BY DEF IndInv, OperatorTypeOK, WriteFails, Failed
<1>2. QED  BY <1>1, ReturnStep DEF WriteFails, Failed

LEMMA OperatorStepLemma ==
    ASSUME IndInv, OperatorNext
    PROVE  /\ OperatorTypeOK' /\ Known' /\ Ahead'
           /\ mixed' \/ \A k \in Kinds : cm.data[k] <= cm'.data[k]
<1> DEFINE Forward == mixed' \/ \A k \in Kinds : cm.data[k] <= cm'.data[k]
<1>0. cm' = cm => Forward  BY Contents DEF IndInv
<1> HIDE DEF Forward
<1>1. CASE \E k \in Kinds, part \in Parts : Edit(k, part)
  <2>1. Forward  BY <1>0, <1>1 DEF Edit
  <2>2. QED  BY <1>1, <2>1, EditStep DEF Forward
<1>2. ASSUME NEW p \in Pods, OperatorStep(p)
      PROVE  OperatorTypeOK' /\ Known' /\ Ahead' /\ Forward
  <2>1. CASE Start(p)  BY <2>1, StartStep, <1>0 DEF Start
  <2>2. CASE Kill(p)  BY <2>2, KillStep, <1>0 DEF Kill
  <2>3. CASE \E k \in Kinds : Observe(p, k)
    BY <2>3, ObserveStep, <1>0 DEF Observe
  <2>4. CASE ObserveConfigMap(p)
    BY <2>4, ObserveConfigMapStep, <1>0 DEF ObserveConfigMap
  <2>5. CASE Reconcile(p)  BY <2>5, ReconcileStep, <1>0 DEF Reconcile
  <2>6. CASE List(p)  BY <2>6, ListStep, <1>0 DEF List
  <2>7. CASE ListFails(p)  BY <2>7, ListFailsStep, <1>0 DEF ListFails
  <2>8. CASE Get(p) \/ GetFails(p)
    BY <2>8, GetStep, <1>0 DEF Get, GetFails
  <2>9. CASE Write(p) \/ WriteUnanswered(p)
    <3>1. mixed' = mixed  BY <2>9 DEF Write, WriteUnanswered
    <3>2. QED  BY <2>9, <3>1, WriteStep DEF Forward
  <2>10. CASE WriteFails(p)  BY <2>10, WriteFailsStep, <1>0 DEF WriteFails
  <2>11. QED
    BY <1>2, <2>1, <2>2, <2>3, <2>4, <2>5, <2>6, <2>7, <2>8, <2>9, <2>10 DEF OperatorStep
<1>3. QED  BY <1>1, <1>2 DEF OperatorNext, Forward

-----------------------------------------------------------------------------

LEMMA ConfigStep == IndInv /\ [Next]_vars => IndInv'
<1>1. SUFFICES ASSUME IndInv, [Next]_vars PROVE IndInv'  OBVIOUS
<1>2. CASE OperatorNext /\ UNCHANGED wvars
  BY <1>1, <1>2, OperatorStepLemma, WatcherStutters DEF IndInv
<1>3. CASE WatcherNext /\ UNCHANGED opvars
  BY <1>1, <1>3, OperatorStutters, WatcherStep DEF IndInv
<1>4. CASE Project
  BY <1>1, <1>4, OperatorStutters, WatcherStep DEF IndInv, Project
<1>5. CASE UNCHANGED vars
  BY <1>1, <1>5, OperatorStutters, WatcherStutters DEF IndInv, vars
<1>6. QED  BY <1>1, <1>2, <1>3, <1>4, <1>5 DEF Next

\* The inductive invariant of operator, kubelet and watcher.
THEOREM ConfigInvariant == Spec => []IndInv
BY ConfigInit, ConfigStep, PTL DEF Spec

\* The states of operator and watcher are well-typed, and Reconcile never holds
\* a ConfigMap that does not exist.
THEOREM ConfigTypes == Spec => []TypeOK
<1>1. IndInv => TypeOK  BY DEF IndInv, TypeOK
<1>2. QED  BY <1>1, ConfigInvariant, PTL

\* The watcher overlooks no change of the file, except in the gap between
\* main's Load and NewWatcher's Stat.
THEOREM ConfigNothingOverlooked == Spec => []NothingOverlooked
<1>1. IndInv => NothingOverlooked  BY DEF IndInv
<1>2. QED  BY <1>1, ConfigInvariant, PTL

\* However many kinds, pods and failures: one operator at a time never takes
\* the ConfigMap back.
THEOREM ConfigForward == Spec => ConfigMapForward
<1>1. IndInv /\ [Next]_vars
        => [mixed' \/ \A k \in Kinds : cm.data[k] <= cm'.data[k]]_opvars
  <2>1. SUFFICES ASSUME IndInv, [Next]_vars
                 PROVE  (mixed' \/ \A k \in Kinds : cm.data[k] <= cm'.data[k])
                          \/ UNCHANGED opvars
    OBVIOUS
  <2>2. CASE OperatorNext  BY <2>1, <2>2, OperatorStepLemma
  <2>3. CASE ~OperatorNext  BY <2>1, <2>3 DEF Next, Project, vars
  <2>4. QED  BY <2>2, <2>3
<1>2. QED  BY <1>1, ConfigInvariant, PTL DEF Spec, ConfigMapForward
=============================================================================
