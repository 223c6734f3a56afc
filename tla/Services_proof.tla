--------------------------- MODULE Services_proof ---------------------------
(***************************************************************************)
(* Proofs about Services: for any services, functions and peers, the two   *)
(* checks of a service agree and the manager is kept up to date.           *)
(***************************************************************************)
EXTENDS Services, TLAPS

(* A registered service that is tidy has marked its functions. *)
Marked ==
  \A i \in ServiceId : services[i] # NoService =>
    /\ Id[services[i]] = i
    /\ Tidy(services[i]) =>
         \A f \in Functions[services[i]] :
           annotation[f] = [id |-> i, visibility |-> Visibility[services[i]]]

(* The inductive invariant. *)
IInv == TypeOK /\ Marked /\ ManagerUpToDate

-----------------------------------------------------------------------------
(***************************************************************************)
(* Marking the functions of any service, or some of them, leaves those of  *)
(* a tidy service marked as they are, and if it is the service itself,     *)
(* marks them so.                                                          *)
(***************************************************************************)
LEMMA AnnotateKeepsTidy ==
  ASSUME TypeOK, NEW s \in Service, NEW t \in Service, Tidy(s),
         NEW F \in SUBSET Functions[t], Annotate(F, Id[t], Visibility[t]),
         NEW f \in Functions[s], f \in Function,
         \/ annotation[f] = [id |-> Id[s], visibility |-> Visibility[s]]
         \/ s = t /\ F = Functions[t]
  PROVE  annotation'[f] = [id |-> Id[s], visibility |-> Visibility[s]]
<1>1. CASE f \in F
  <2>1. f \in Functions[s] \cap Functions[t]
    BY <1>1
  <2>2. Id[t] = Id[s] /\ Visibility[t] = Visibility[s]
    BY <2>1 DEF Tidy
  <2> QED
    BY <1>1, <2>2 DEF Annotate
<1>2. CASE f \notin F
  BY <1>2 DEF Annotate
<1> QED
  BY <1>1, <1>2

(* Marks are well typed. *)
LEMMA AnnotateTyped ==
  ASSUME TypeOK, NEW t \in Service,
         NEW F \in SUBSET Functions[t], Annotate(F, Id[t], Visibility[t])
  PROVE  annotation' \in [Function -> Annotation \cup {NoAnnotation}]
<1>1. Id[t] \in ServiceId /\ Visibility[t] \in {"protected", "public"}
  BY ServicesAssumption DEF ServicesAssumption
<1>2. [id |-> Id[t], visibility |-> Visibility[t]] \in Annotation
  BY <1>1 DEF Annotation
<1> QED
  BY <1>2 DEF Annotate, TypeOK

(***************************************************************************)
(* A change of the registry to r, announced or not, keeps the types of the *)
(* notifications, and the manager up to date.                              *)
(***************************************************************************)
LEMMA NotifyKeeps ==
  ASSUME IInv, NEW r \in Registry, services' = r,
         NEW notify \in BOOLEAN, IF notify THEN Notify(r) ELSE Silent
  PROVE  /\ known' \in BOOLEAN /\ missed' \in BOOLEAN
         /\ asking' \in Nat /\ outbox' \in Seq(Registry) /\ view' \in Registry
         /\ ManagerUpToDate'
<1>1. /\ known \in BOOLEAN /\ missed \in BOOLEAN
      /\ asking \in Nat /\ outbox \in Seq(Registry) /\ view \in Registry
  BY DEF IInv, TypeOK
<1>2. CASE ~notify
  BY <1>1, <1>2 DEF Silent, ManagerUpToDate
<1>3. CASE notify /\ known
  <2>1. /\ outbox' = Append(outbox, r) /\ missed' = FALSE
        /\ UNCHANGED <<asking, known, view>>
    BY <1>3 DEF Notify
  <2>2. outbox' \in Seq(Registry) /\ outbox' # <<>> /\ outbox'[Len(outbox')] = r
    BY <1>1, <2>1
  <2> QED
    BY <1>1, <2>1, <2>2 DEF ManagerUpToDate
<1>4. CASE notify /\ ~known
  <2>1. asking' = asking + 1 /\ UNCHANGED <<outbox, missed, known, view>>
    BY <1>4 DEF Notify
  <2> QED
    BY <1>1, <2>1 DEF ManagerUpToDate
<1> QED
  BY <1>2, <1>3, <1>4

LEMMA InitHolds ==
  ASSUME Init
  PROVE  IInv
<1>1. Empty \in Registry
  BY DEF Empty, Registry
<1>2. TypeOK
  <2>1. outbox \in Seq(Registry) /\ asking \in Nat /\ view \in Registry /\ services \in Registry
    BY <1>1 DEF Init
  <2> QED
    BY <2>1 DEF Init, TypeOK
<1>3. Marked /\ ManagerUpToDate
  BY DEF Init, Marked, ManagerUpToDate, Empty
<1> QED
  BY <1>2, <1>3 DEF IInv

-----------------------------------------------------------------------------
(* Registering, and failing to. *)
LEMMA RegisterKeeps ==
  ASSUME IInv, NEW s \in Service, NEW overwrite \in BOOLEAN, NEW notify \in BOOLEAN,
         RegisterService(s, overwrite, notify)
  PROVE  IInv'
<1> DEFINE new == [services EXCEPT ![Id[s]] = s]
<1>1. TypeOK /\ Id[s] \in ServiceId /\ \A t \in Service : Functions[t] \subseteq Function
  BY ServicesAssumption DEF IInv, ServicesAssumption
<1>2. new \in Registry
  BY <1>1 DEF TypeOK, Registry
<1>3. services' = new /\ (IF notify THEN Notify(new) ELSE Silent)
  BY DEF RegisterService
<1>4. Annotate(Functions[s], Id[s], Visibility[s])
  BY DEF RegisterService
<1>5. /\ known' \in BOOLEAN /\ missed' \in BOOLEAN
      /\ asking' \in Nat /\ outbox' \in Seq(Registry) /\ view' \in Registry
      /\ ManagerUpToDate'
  <2> HIDE DEF new
  <2> QED
    BY <1>2, <1>3, NotifyKeeps
<1>6. annotation' \in [Function -> Annotation \cup {NoAnnotation}]
  BY <1>1, <1>4, AnnotateTyped
<1>7. TypeOK'
  BY <1>1, <1>2, <1>3, <1>5, <1>6 DEF TypeOK, RegisterService
<1>8. Marked'
  <2> SUFFICES ASSUME NEW i \in ServiceId, services'[i] # NoService
               PROVE  /\ Id[services'[i]] = i
                      /\ Tidy(services'[i]) => \A f \in Functions[services'[i]] :
                           annotation'[f] = [id |-> i, visibility |-> Visibility[services'[i]]]
    BY DEF Marked, Tidy
  <2>1. services'[i] \in Service
    BY <1>2, <1>3 DEF Registry
  <2>2. services'[i] = IF i = Id[s] THEN s ELSE services[i]
    BY <1>1, <1>3 DEF TypeOK, Registry
  <2>3. Id[services'[i]] = i
    BY <2>2 DEF IInv, Marked
  <2>4. ASSUME Tidy(services'[i]), NEW f \in Functions[services'[i]]
        PROVE  annotation'[f] = [id |-> i, visibility |-> Visibility[services'[i]]]
    <3>1. \/ annotation[f] = [id |-> Id[services'[i]], visibility |-> Visibility[services'[i]]]
          \/ services'[i] = s
      BY <2>2, <2>3, <2>4 DEF IInv, Marked
    <3>2. f \in Function /\ Functions[s] \in SUBSET Functions[s]
      BY <1>1, <2>1
    <3> DEFINE u == services'[i]
    <3>3. u \in Service /\ Tidy(u) /\ f \in Functions[u] /\ Id[u] = i
      BY <2>1, <2>3, <2>4
    <3>4. \/ annotation[f] = [id |-> Id[u], visibility |-> Visibility[u]]
          \/ u = s
      BY <3>1
    <3> HIDE DEF u
    <3>5. annotation'[f] = [id |-> Id[u], visibility |-> Visibility[u]]
      BY <1>1, <1>4, <3>2, <3>3, <3>4, AnnotateKeepsTidy
    <3> QED
      BY <3>3, <3>5 DEF u
  <2> QED
    BY <2>3, <2>4
<1> QED
  BY <1>5, <1>7, <1>8 DEF IInv

LEMMA RefusalKeeps ==
  ASSUME IInv, NEW s \in Service, RegisterFails(s)
  PROVE  IInv'
<1>1. TypeOK /\ \A t \in Service : Functions[t] \subseteq Function
  BY ServicesAssumption DEF IInv, ServicesAssumption
<1>2. PICK F \in SUBSET Functions[s] : Annotate(F, Id[s], Visibility[s])
  BY DEF RegisterFails
<1>3. UNCHANGED <<services, serving, noticeVars>>
  BY DEF RegisterFails
<1>4. annotation' \in [Function -> Annotation \cup {NoAnnotation}]
  BY <1>1, <1>2, AnnotateTyped
<1>5. TypeOK' /\ ManagerUpToDate'
  BY <1>1, <1>3, <1>4 DEF IInv, TypeOK, ManagerUpToDate, noticeVars
<1>6. Marked'
  <2> SUFFICES ASSUME NEW i \in ServiceId, services[i] # NoService
               PROVE  /\ Id[services[i]] = i
                      /\ Tidy(services[i]) => \A f \in Functions[services[i]] :
                           annotation'[f] = [id |-> i, visibility |-> Visibility[services[i]]]
    BY <1>3 DEF Marked, Tidy
  <2>1. services[i] \in Service /\ Id[services[i]] = i
    BY <1>1 DEF IInv, TypeOK, Registry, Marked
  <2>2. ASSUME Tidy(services[i]), NEW f \in Functions[services[i]]
        PROVE  annotation'[f] = [id |-> i, visibility |-> Visibility[services[i]]]
    <3>1. annotation[f] = [id |-> Id[services[i]], visibility |-> Visibility[services[i]]]
      BY <2>1, <2>2 DEF IInv, Marked
    <3> QED
      BY <1>1, <1>2, <2>1, <2>2, <3>1, AnnotateKeepsTidy
  <2> QED
    BY <2>1, <2>2
<1> QED
  BY <1>5, <1>6 DEF IInv

(* Taking services away. *)
LEMMA UnregisterKeeps ==
  ASSUME IInv, NEW i \in ServiceId, NEW notify \in BOOLEAN, UnregisterService(i, notify)
  PROVE  IInv'
<1> DEFINE new == [services EXCEPT ![i] = NoService]
<1>1. new \in Registry /\ services \in Registry
  BY DEF IInv, TypeOK, Registry
<1>2. services' = new /\ (IF notify THEN Notify(new) ELSE Silent)
  BY DEF UnregisterService
<1>3. /\ known' \in BOOLEAN /\ missed' \in BOOLEAN
      /\ asking' \in Nat /\ outbox' \in Seq(Registry) /\ view' \in Registry
      /\ ManagerUpToDate'
  <2> HIDE DEF new
  <2> QED
    BY <1>1, <1>2, NotifyKeeps
<1>4. TypeOK'
  BY <1>1, <1>2, <1>3 DEF IInv, TypeOK, UnregisterService
<1>5. \A j \in ServiceId : services'[j] \in {services[j], NoService}
  BY <1>1, <1>2 DEF Registry
<1>6. Marked'
  BY <1>5 DEF IInv, Marked, Tidy, UnregisterService
<1> QED
  BY <1>3, <1>4, <1>6 DEF IInv

LEMMA ResetKeeps ==
  ASSUME IInv, Reset
  PROVE  IInv'
<1>1. Empty \in Registry
  BY DEF Empty, Registry
<1>2. TypeOK'
  BY <1>1 DEF IInv, TypeOK, Reset, Silent
<1>3. Marked' /\ ManagerUpToDate'
  BY DEF Marked, ManagerUpToDate, Reset, Silent, Empty
<1> QED
  BY <1>2, <1>3 DEF IInv

-----------------------------------------------------------------------------
(* What the manager service and the client infos on their way do. *)
LEMMA NoticesKeep ==
  ASSUME IInv,
         GetConnectionInfo \/ ManagerAnswers \/ ManagerFails \/ UpdateClientInfo \/ LoseClientInfo
  PROVE  IInv'
<1>1. /\ services \in Registry /\ known \in BOOLEAN /\ missed \in BOOLEAN
      /\ asking \in Nat /\ outbox \in Seq(Registry) /\ view \in Registry
  BY DEF IInv, TypeOK
<1>2. UNCHANGED registryVars
  BY DEF GetConnectionInfo, ManagerAnswers, ManagerFails, UpdateClientInfo, LoseClientInfo,
         registryVars
<1>3. Marked'
  BY <1>2 DEF IInv, Marked, Tidy, registryVars
<1>4. ASSUME /\ known' \in BOOLEAN /\ missed' \in BOOLEAN
             /\ asking' \in Nat /\ outbox' \in Seq(Registry) /\ view' \in Registry
      PROVE  TypeOK'
  BY <1>2, <1>4 DEF IInv, TypeOK, registryVars
<1>5. CASE GetConnectionInfo
  BY <1>1, <1>2, <1>3, <1>4, <1>5 DEF GetConnectionInfo, IInv, ManagerUpToDate, registryVars
<1>6. CASE ManagerAnswers
  <2>1. /\ asking' \in Nat /\ outbox' = Append(outbox, services)
        /\ known' = TRUE /\ missed' = FALSE /\ view' = view
    BY <1>1, <1>6 DEF ManagerAnswers
  <2>2. outbox' \in Seq(Registry) /\ outbox' # <<>> /\ outbox'[Len(outbox')] = services
    BY <1>1, <2>1
  <2>3. ManagerUpToDate'
    BY <1>2, <2>2 DEF ManagerUpToDate, registryVars
  <2> QED
    BY <1>1, <1>3, <1>4, <2>1, <2>2, <2>3 DEF IInv
<1>7. CASE ManagerFails
  BY <1>1, <1>3, <1>4, <1>7 DEF ManagerFails, IInv, ManagerUpToDate
<1>8. CASE UpdateClientInfo
  <2>1. outbox # <<>> /\ view' = Head(outbox) /\ outbox' = Tail(outbox)
    BY <1>8 DEF UpdateClientInfo
  <2>2. UNCHANGED <<known, asking, missed, services>>
    BY <1>8 DEF UpdateClientInfo, registryVars
  <2>3. outbox' \in Seq(Registry) /\ view' \in Registry
    BY <1>1, <2>1
  <2>4. /\ Len(outbox) \in Nat \ {0} /\ Len(outbox') = Len(outbox) - 1
        /\ outbox' \in Seq(Registry)
        /\ view' = outbox[1]
        /\ \A i \in 1..Len(outbox') : outbox'[i] = outbox[i + 1]
    BY <1>1, <2>1
  <2>5. outbox' = <<>> => outbox[Len(outbox)] = view'
    <3>1. SUFFICES ASSUME outbox' = <<>>
                   PROVE  outbox[Len(outbox)] = view'
      OBVIOUS
    <3>2. Len(outbox') = 0
      BY <3>1
    <3>3. Len(outbox) = 1
      BY <2>4, <3>2
    <3> QED
      BY <2>4, <3>3
  <2>6. outbox' # <<>> => outbox[Len(outbox)] = outbox'[Len(outbox')]
    <3>1. SUFFICES ASSUME outbox' # <<>>
                   PROVE  outbox[Len(outbox)] = outbox'[Len(outbox')]
      OBVIOUS
    <3>2. Len(outbox') \in 1..Len(outbox') /\ Len(outbox') + 1 = Len(outbox)
      BY <2>4, <3>1
    <3> QED
      BY <2>4, <3>2
  <2>7. ManagerUpToDate'
    BY <2>1, <2>2, <2>5, <2>6 DEF IInv, ManagerUpToDate
  <2> QED
    BY <1>1, <1>3, <1>4, <2>2, <2>3, <2>7 DEF IInv
<1>9. CASE LoseClientInfo
  <2>1. outbox' \in Seq(Registry)
    BY <1>1, <1>9 DEF LoseClientInfo
  <2> QED
    BY <1>1, <1>3, <1>4, <1>9, <2>1 DEF LoseClientInfo, IInv, ManagerUpToDate
<1> QED
  BY <1>5, <1>6, <1>7, <1>8, <1>9

LEMMA Step ==
  ASSUME IInv, [Next]_vars
  PROVE  IInv'
<1>1. CASE UNCHANGED vars
  BY <1>1 DEF vars, registryVars, noticeVars, IInv, TypeOK, Marked, Tidy,
              ManagerUpToDate
<1> QED
  BY <1>1, RegisterKeeps, RefusalKeeps, UnregisterKeeps, ResetKeeps, NoticesKeep
  DEF Next

-----------------------------------------------------------------------------
THEOREM Inductive == Spec => []IInv
<1>1. Init => IInv
  BY InitHolds
<1>2. IInv /\ [Next]_vars => IInv'
  BY Step
<1> QED
  BY <1>1, <1>2, PTL DEF Spec

(***************************************************************************)
(* Who is given a tidy service can call its functions by the name they are *)
(* sent by, and nobody else can (get_local_service against                 *)
(* _handle_method), whatever was registered, refused or taken away before. *)
(***************************************************************************)
THEOREM ServicesWork == Spec => []ChecksAgree
<1>1. IInv => ChecksAgree
  <2> SUFFICES ASSUME IInv, NEW i \in ServiceId, services[i] # NoService, Tidy(services[i]),
                      NEW f \in Functions[services[i]]
               PROVE  /\ annotation[f] # NoAnnotation /\ annotation[f].id = i
                      /\ \A p \in Peer : AcceptsMethod(p, i, f) <=> GivesService(p, i)
    BY DEF ChecksAgree
  <2>1. services[i] \in Service
    BY DEF IInv, TypeOK, Registry
  <2>2. annotation[f] = [id |-> i, visibility |-> Visibility[services[i]]]
    BY DEF IInv, Marked
  <2>3. annotation[f] \in Annotation
    BY <2>1, <2>2, ServicesAssumption DEF ServicesAssumption, Annotation
  <2>4. annotation[f] # NoAnnotation
    BY <2>3, AnnotationAssumption DEF AnnotationAssumption
  <2> QED
    BY <2>2, <2>4 DEF AcceptsMethod, GivesService, Permitted
<1> QED
  BY <1>1, Inductive, PTL

(***************************************************************************)
(* The last client info sent is the present one, unless a notification was *)
(* not asked for, failed or was lost (_notify_service_update).             *)
(***************************************************************************)
THEOREM ManagerIsTold == Spec => []ManagerUpToDate
<1>1. IInv => ManagerUpToDate
  BY DEF IInv
<1> QED
  BY <1>1, Inductive, PTL

(* The state is well typed for any services, functions and peers.         *)
THEOREM TypeCorrect == Spec => []TypeOK
<1>1. IInv => TypeOK
  BY DEF IInv
<1> QED
  BY <1>1, Inductive, PTL
=============================================================================
