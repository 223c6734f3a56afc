------------------------------ MODULE Services ------------------------------
(***************************************************************************)
(* The services of one hypha client: hypha/rpc.py, add_service,            *)
(* register_service, unregister_service, get_local_service, the            *)
(* permission check of _handle_method, and what the manager is told.       *)
(*                                                                         *)
(* A service is found by its id.  Its functions are marked, each by        *)
(* itself, in _method_annotations, with the id and the visibility of the   *)
(* service they were last added for.  A function that is marked is sent    *)
(* to others as that service's method, any other one as a callback that    *)
(* lives in the session of the call.                                       *)
(***************************************************************************)
EXTENDS Naturals, Sequences

CONSTANTS
  Function,      \* functions of this client
  ServiceId,     \* ids of services
  Service,       \* objects that are registered as services
  Id, Functions, Visibility, \* what a service consists of
  NoService,     \* nothing registered
  NoAnnotation,  \* a function that was never part of a service
  Peer,          \* other clients
  Foreign,       \* those of other workspaces
  MaxNotices     \* bound on notifications under way

ASSUME ServicesAssumption ==
  /\ Id \in [Service -> ServiceId]
  /\ Functions \in [Service -> SUBSET Function]
  /\ Visibility \in [Service -> {"protected", "public"}]
  /\ NoService \notin Service
  /\ Foreign \subseteq Peer

Annotation == [id : ServiceId, visibility : {"protected", "public"}]
Registry == [ServiceId -> Service \cup {NoService}]

ASSUME AnnotationAssumption == NoAnnotation \notin Annotation

VARIABLES
  services,    \* _services
  annotation,  \* _method_annotations
  serving,     \* the handler of method calls is there
  known,       \* _manager_service is there
  asking,      \* number of notifications that wait for the manager service
  outbox,      \* client infos on their way to the manager
  view,        \* the last client info the manager got
  missed       \* a change or a client info did not get to the manager

registryVars == <<services, annotation, serving>>
noticeVars == <<known, asking, outbox, view, missed>>
vars == <<registryVars, noticeVars>>

Empty == [i \in ServiceId |-> NoService]

TypeOK ==
  /\ services \in Registry
  /\ annotation \in [Function -> Annotation \cup {NoAnnotation}]
  /\ serving \in BOOLEAN
  /\ known \in BOOLEAN /\ missed \in BOOLEAN
  /\ asking \in Nat
  /\ outbox \in Seq(Registry)
  /\ view \in Registry

Init ==
  /\ services = Empty
  /\ annotation = [f \in Function |-> NoAnnotation]
  /\ serving = TRUE
  /\ known = FALSE /\ missed = FALSE
  /\ asking = 0
  /\ outbox = <<>>
  /\ view = Empty

-----------------------------------------------------------------------------
(* Mutant: the visibility is not handed on to the members. *)
AnnotateDefault(F, i, v) ==
  annotation' = [f \in Function |-> IF f \in F THEN [id |-> i, visibility |-> "protected"]
                                               ELSE annotation[f]]

(* _annotate_service_methods. *)
Annotate(F, i, v) ==
  annotation' = [f \in Function |-> IF f \in F THEN [id |-> i, visibility |-> v]
                                               ELSE annotation[f]]

(***************************************************************************)
(* _notify_service_update after a change to the registry r.  When the      *)
(* manager service is there, the client info goes out at once.  Otherwise  *)
(* the coroutine first waits for it.                                       *)
(***************************************************************************)
Notify(r) ==
  /\ asking + Len(outbox) < MaxNotices
  /\ \/ /\ known
        /\ outbox' = Append(outbox, r)
        /\ missed' = FALSE
        /\ UNCHANGED asking
     \/ /\ ~known
        /\ asking' = asking + 1
        /\ UNCHANGED <<outbox, missed>>
  /\ UNCHANGED <<known, view>>

(* notify=False. *)
Silent ==
  /\ missed' = TRUE
  /\ UNCHANGED <<known, asking, outbox, view>>

(***************************************************************************)
(* register_service, called here or by a client of the same workspace.     *)
(* Without overwrite the id must be free.                                  *)
(***************************************************************************)
RegisterService(s, overwrite, notify) ==
  LET new == [services EXCEPT ![Id[s]] = s] IN
  /\ overwrite \/ services[Id[s]] = NoService
  /\ Annotate(Functions[s], Id[s], Visibility[s])
  /\ services' = new
  /\ IF notify THEN Notify(new) ELSE Silent
  /\ UNCHANGED serving

(***************************************************************************)
(* add_service raises when the id is taken, and when it meets a function   *)
(* of another client.  The functions seen so far are marked by then.       *)
(***************************************************************************)
RegisterFails(s) ==
  /\ \/ /\ services[Id[s]] # NoService
        /\ Annotate(Functions[s], Id[s], Visibility[s])
     \/ \E F \in SUBSET Functions[s] : Annotate(F, Id[s], Visibility[s])
  /\ UNCHANGED <<services, serving, noticeVars>>

(* Mutant: the manager is notified first. *)
UnregisterAfterNotice(i, notify) ==
  /\ services[i] # NoService
  /\ services' = [services EXCEPT ![i] = NoService]
  /\ IF notify THEN Notify(services) ELSE Silent
  /\ UNCHANGED <<annotation, serving>>

(* unregister_service: its functions stay marked. *)
UnregisterService(i, notify) ==
  LET new == [services EXCEPT ![i] = NoService] IN
  /\ services[i] # NoService
  /\ services' = new
  /\ IF notify THEN Notify(new) ELSE Silent
  /\ UNCHANGED <<annotation, serving>>

(* reset: no more handlers, no more services. *)
Reset ==
  /\ serving' = FALSE
  /\ services' = Empty
  /\ Silent
  /\ UNCHANGED annotation

-----------------------------------------------------------------------------
(***************************************************************************)
(* Whether peer p may call function f, which was found.  One without a     *)
(* mark is taken for a session's, and "services" has no target_id.         *)
(***************************************************************************)
Permitted(p, f) ==
  /\ annotation[f] # NoAnnotation
  /\ annotation[f].visibility = "public" \/ p \notin Foreign

(* _handle_method: a call of services.<i>.<f>. *)
AcceptsMethod(p, i, f) ==
  /\ serving
  /\ services[i] # NoService /\ f \in Functions[services[i]]
  /\ Permitted(p, f)

(* Mutant: the workspace does not matter. *)
GivesServiceToAll(p, i) ==
  serving /\ services[i] # NoService

(* get_local_service: the service i for peer p, looked at by itself. *)
GivesService(p, i) ==
  /\ serving
  /\ services[i] # NoService
  /\ Visibility[services[i]] = "public" \/ p \notin Foreign

-----------------------------------------------------------------------------
(* _get_connection_info, begun at the start, gets the manager service. *)
GetConnectionInfo ==
  /\ serving
  /\ ~known /\ known' = TRUE
  /\ UNCHANGED <<asking, outbox, view, missed, registryVars>>

(* Mutant: the coroutine that gets the manager service ends with that. *)
ManagerAnswersOnly ==
  /\ serving
  /\ asking > 0 /\ asking' = asking - 1
  /\ known' = TRUE
  /\ UNCHANGED <<outbox, missed, view, registryVars>>

(* get_manager_service returns: the client info of this moment is sent. *)
ManagerAnswers ==
  /\ serving
  /\ asking > 0 /\ asking' = asking - 1
  /\ known' = TRUE
  /\ outbox' = Append(outbox, services)
  /\ missed' = FALSE
  /\ UNCHANGED <<view, registryVars>>

(* Mutant: it raises for a coroutine that has gone on already. *)
ManagerFailsLate ==
  /\ asking' = asking - 1
  /\ missed' = TRUE
  /\ UNCHANGED <<known, outbox, view, registryVars>>

(* get_manager_service raises, which is logged only. *)
ManagerFails ==
  /\ asking > 0 /\ asking' = asking - 1
  /\ missed' = TRUE
  /\ UNCHANGED <<known, outbox, view, registryVars>>

(* The manager gets a client info. *)
UpdateClientInfo ==
  /\ outbox # <<>>
  /\ view' = Head(outbox)
  /\ outbox' = Tail(outbox)
  /\ UNCHANGED <<known, asking, missed, registryVars>>

(* A client info is lost. *)
LoseClientInfo ==
  /\ outbox # <<>>
  /\ outbox' = Tail(outbox)
  /\ missed' = TRUE
  /\ UNCHANGED <<known, asking, view, registryVars>>

Next ==
  \/ \E s \in Service :
       \/ \E overwrite, notify \in BOOLEAN : RegisterService(s, overwrite, notify)
       \/ RegisterFails(s)
  \/ \E i \in ServiceId, notify \in BOOLEAN : UnregisterService(i, notify)
  \/ Reset
  \/ GetConnectionInfo \/ ManagerAnswers \/ ManagerFails
  \/ UpdateClientInfo \/ LoseClientInfo

Spec == Init /\ [][Next]_vars

-----------------------------------------------------------------------------
(* No other service marks the functions of s in another way. *)
Tidy(s) ==
  \A t \in Service :
    Functions[s] \cap Functions[t] # {} =>
      Id[t] = Id[s] /\ Visibility[t] = Visibility[s]

(***************************************************************************)
(* The checks of get_local_service, which looks at the service, and of     *)
(* _handle_method, which looks at the mark of the function, agree: who is  *)
(* given a service can call what it consists of, under the name its        *)
(* functions are sent by, and nobody else can.  That is so whatever was    *)
(* overwritten, refused or unregistered, for a service whose functions are *)
(* not marked otherwise by another one.                                    *)
(***************************************************************************)
ChecksAgree ==
  \A i \in ServiceId : services[i] # NoService /\ Tidy(services[i]) =>
    \A f \in Functions[services[i]] :
      /\ annotation[f] # NoAnnotation /\ annotation[f].id = i
      /\ \A p \in Peer : AcceptsMethod(p, i, f) <=> GivesService(p, i)

(***************************************************************************)
(* Unless a change was not announced or a notification failed or was lost, *)
(* the last client info sent, and so the manager's view in the end, is the *)
(* present one (_notify_service_update), though registrations overlap      *)
(* while the manager service is awaited.                                   *)
(***************************************************************************)
ManagerUpToDate ==
  missed \/ asking > 0 \/ services = (IF outbox = <<>> THEN view ELSE outbox[Len(outbox)])
=============================================================================
