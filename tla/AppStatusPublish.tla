--------------------------- MODULE AppStatusPublish ---------------------------
(***************************************************************************)
(* doPublishAppStatus (syncer.go, appended to application/proto/          *)
(* syncer.proto, lines 214-237) against the local endpoint that keeps     *)
(* updating its application descriptor (spec 3, EndpointApplication).     *)
(* The publisher builds the AppStatus literal with one                    *)
(* GetEndpointApplication() call per field, so the endpoint may change    *)
(* between two field reads. Only the fields the endpoint changes are      *)
(* kept: StartupTime and Uptime. The other fields read are constant, and  *)
(* the capacity gauge the endpoint also changes is not read at all.       *)
(***************************************************************************)
EXTENDS Naturals

CONSTANTS
    MaxUptime,    \* bound on the uptime counter
    MaxRestarts,  \* bound on the restarts of the application
    MaxPublishes  \* bound on the publisher's fires

ASSUME MaxUptime \in Nat /\ MaxRestarts \in Nat
ASSUME MaxPublishes \in Nat \ {0}

\* The endpoint's descriptor as far as it changes: startup is the number
\* of the application's run (its StartupTime), uptime counts within a run.
Descriptor == [startup : 0..MaxRestarts, uptime : 0..MaxUptime]

NoStatus == [startup |-> 0, uptime |-> 0]

VARIABLES
    app,        \* the endpoint's current descriptor
    pc,         \* publisher: "idle", "startup" (Uptime read), "publish"
    draft,      \* the AppStatus literal under construction
    published,  \* the last status handed to PublishApplicationStatus
    window,     \* history: descriptors the endpoint held during this publish
    fires       \* publishes so far

vars == <<app, pc, draft, published, window, fires>>

TypeOK ==
    /\ app \in Descriptor
    /\ pc \in {"idle", "startup", "publish"}
    /\ draft \in Descriptor /\ published \in Descriptor
    /\ window \subseteq Descriptor
    /\ fires \in 0..MaxPublishes

Init ==
    /\ app = NoStatus
    /\ pc = "idle" /\ draft = NoStatus /\ published = NoStatus
    /\ window = {} /\ fires = 0

Reading == pc # "idle"

\* Every change of the endpoint is seen by a publish in progress.
EndpointSets(d) ==
    /\ app' = d
    /\ window' = IF Reading THEN window \cup {d} ELSE window
    /\ UNCHANGED <<pc, draft, published, fires>>

(***************************************************************************)
(* The local endpoint (not in this repository; spec 3): uptime advances, *)
(* and a restart of the application gives a new StartupTime with the    *)
(* uptime counted from 0.                                                  *)
(***************************************************************************)
UptimeAdvance ==
    /\ app.uptime < MaxUptime
    /\ EndpointSets([app EXCEPT !.uptime = @ + 1])

AppRestart ==
    /\ app.startup < MaxRestarts
    /\ EndpointSets([app EXCEPT !.startup = @ + 1, !.uptime = 0])

(***************************************************************************)
(* doPublishAppStatus, one step per read of a changing field, in the      *)
(* order of the literal: the host address, Name and NodeId (constant),   *)
(* then Uptime (line 222), then StartupTime (line 223), then the constant *)
(* fields and the call of PublishApplicationStatus.                        *)
(***************************************************************************)
ReadUptime ==
    /\ pc = "idle" /\ fires < MaxPublishes
    /\ fires' = fires + 1
    /\ draft' = [NoStatus EXCEPT !.uptime = app.uptime]
    /\ window' = {app}
    /\ pc' = "startup"
    /\ UNCHANGED <<app, published>>

ReadStartupTime ==
    /\ pc = "startup"
    /\ draft' = [draft EXCEPT !.startup = app.startup]
    /\ pc' = "publish"
    /\ UNCHANGED <<app, published, window, fires>>

Publish ==
    /\ pc = "publish"
    /\ published' = draft
    /\ pc' = "idle"
    /\ UNCHANGED <<app, draft, window, fires>>

Done ==
    /\ pc = "idle" /\ fires = MaxPublishes
    /\ UNCHANGED vars

Next ==
    \/ UptimeAdvance \/ AppRestart
    \/ ReadUptime \/ ReadStartupTime \/ Publish
    \/ Done

Spec == Init /\ [][Next]_vars

-----------------------------------------------------------------------------
\* Spec 4.2: each fire reads the EndpointApplication snapshot, so the
\* StartupTime and Uptime published together are those of one moment of
\* the endpoint during the publish, not an uptime of an earlier run of the
\* application paired with the startup time of a later one.
PublishedIsSnapshot ==
    fires > 0 /\ pc = "idle" =>
        \E d \in window :
            d = published
=============================================================================
