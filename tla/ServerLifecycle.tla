--------------------------- MODULE ServerLifecycle ---------------------------
(***************************************************************************)
(* Startup and shutdown of the edge-matrix server (server/server.go):    *)
(* NewServer as the sequence of its setup and start steps, each of which *)
(* may fail and return an error at once, and Server.Close. The running   *)
(* mode and the relay options are configuration, enumerated in Init.     *)
(* running is the set of components whose goroutines or listeners have   *)
(* been started and not stopped.                                          *)
(***************************************************************************)
EXTENDS FiniteSets

Components ==
    {"grpc", "baseNet", "consensus", "edgeNet", "relayReserv", "alive",
     "syncer", "relayServer", "telepool"}

\* config.RunningMode, config.RelayOn, config.RelayAddr.Port > 0,
\* config.LogFilePath # ""
Configs ==
    [mode : {"full", "edge"}, relayOn : BOOLEAN, relayPort : BOOLEAN,
     logFile : BOOLEAN]

VARIABLES
    cfg,       \* the server configuration
    pc,        \* the step of NewServer about to run, "returned" after it
    result,    \* what NewServer returned: "none", "ok", "err"
    running,   \* started components
    closed     \* Server.Close has been called

vars == <<cfg, pc, result, running, closed>>

Full == cfg.mode = "full"

TypeOK ==
    /\ cfg \in Configs
    /\ pc \in {"logger", "datadir", "datadog", "secrets", "baseNet",
               "blockchain", "edgeNet", "telepool", "genesis", "validatorKey",
               "miner", "grpc", "startBase", "startConsensus", "startEdge",
               "relayClient", "endpoint", "alive", "syncer", "jsonrpc",
               "relayServer", "telepoolStart", "returned"}
    /\ result \in {"none", "ok", "err"}
    /\ running \subseteq Components
    /\ closed \in BOOLEAN

Init ==
    /\ cfg \in Configs
    /\ pc = "logger" /\ result = "none" /\ running = {}
    /\ closed = FALSE

\* Moving on to the next step, starting the components in S.
Goto(next, S) ==
    /\ pc' = next /\ running' = running \cup S
    /\ UNCHANGED <<cfg, result, closed>>

\* return nil, err: what was started so far keeps running.
Fail ==
    /\ pc' = "returned" /\ result' = "err"
    /\ UNCHANGED <<cfg, running, closed>>

\* return m, nil, having started the components in S.
Return(S) ==
    /\ pc' = "returned" /\ result' = "ok" /\ running' = running \cup S
    /\ UNCHANGED <<cfg, closed>>

\* newLoggerFromConfig: only creating a log file can fail.
SetupLogger ==
    /\ pc = "logger"
    /\ \/ Goto("datadir", {})
       \/ cfg.logFile /\ Fail

SetupDataDir ==
    /\ pc = "datadir"
    /\ Goto("datadog", {}) \/ Fail

\* if ddErr := m.enableDataDogProfiler(); err != nil { log ddErr }
\* tests err, the error of newLoggerFromConfig, which is nil here: the
\* profiler's own error is never looked at, and startup goes on.
SetupDataDog ==
    /\ pc = "datadog"
    /\ Goto("secrets", {})

SetupSecretsManager ==
    /\ pc = "secrets"
    /\ Goto("baseNet", {}) \/ Fail

NewBaseNetwork ==
    /\ pc = "baseNet"
    /\ Goto("blockchain", {}) \/ Fail

\* State storage, executor, genesis state and the blockchain object.
NewBlockchain ==
    /\ pc = "blockchain"
    /\ Goto("edgeNet", {}) \/ Fail

NewEdgeNetwork ==
    /\ pc = "edgeNet"
    /\ \/ Full /\ (Goto("telepool", {}) \/ Fail)
       \/ ~Full /\ Goto("telepool", {})

\* NewTelegramPool and setupConsensus.
SetupTelepoolConsensus ==
    /\ pc = "telepool"
    /\ Goto("genesis", {}) \/ Fail

\* ComputeGenesis and consensus.Initialize, in full mode.
InitGenesis ==
    /\ pc = "genesis"
    /\ \/ Full /\ (Goto("validatorKey", {}) \/ Fail)
       \/ ~Full /\ Goto("validatorKey", {})

ReadValidatorKey ==
    /\ pc = "validatorKey"
    /\ Goto("miner", {}) \/ Fail

\* initMinerService: grpcServer is always set by NewServer, so the
\* "grpcServer is nil" error cannot happen.
InitMinerService ==
    /\ pc = "miner"
    /\ Goto("grpc", {})

\* setupGRPC: net.Listen may fail; then Serve runs in a goroutine.
SetupGRPC ==
    /\ pc = "grpc"
    /\ Goto("startBase", {"grpc"}) \/ Fail

\* Mutant: consensus is started without starting the base network first.
StartBaseNetworkSkipped ==
    /\ pc = "startBase"
    /\ \/ Full /\ (Goto("startConsensus", {}) \/ Fail)
       \/ ~Full /\ Goto("relayClient", {})

StartBaseNetwork ==
    /\ pc = "startBase"
    /\ \/ Full /\ (Goto("startConsensus", {"baseNet"}) \/ Fail)
       \/ ~Full /\ Goto("relayClient", {})

StartConsensus ==
    /\ pc = "startConsensus"
    /\ Goto("startEdge", {"consensus"}) \/ Fail

StartEdgeNetwork ==
    /\ pc = "startEdge"
    /\ Goto("relayClient", {"edgeNet"}) \/ Fail

\* Edge mode: NewRelayClient, then StartRelayReserv when RelayOn.
SetupRelayClient ==
    /\ pc = "relayClient"
    /\ \/ ~Full /\ cfg.relayOn /\ (Goto("endpoint", {"relayReserv"}) \/ Fail)
       \/ ~Full /\ ~cfg.relayOn /\ (Goto("endpoint", {}) \/ Fail)
       \/ Full /\ Goto("endpoint", {})

NewApplicationEndpoint ==
    /\ pc = "endpoint"
    /\ Goto("alive", {}) \/ Fail

\* Edge mode: relayClient.StartAlive keeps the edge peer alive, and
\* NewServer returns.
StartAlive ==
    /\ pc = "alive"
    /\ \/ ~Full /\ (Return({"alive"}) \/ Fail)
       \/ Full /\ Goto("syncer", {})

\* Full mode: the app status syncer (NewSyncAppPeerClient, NewSyncer,
\* syncer.Start(true)).
StartSyncer ==
    /\ pc = "syncer"
    /\ Goto("jsonrpc", {"syncer"}) \/ Fail

SetupJSONRPC ==
    /\ pc = "jsonrpc"
    /\ Goto("relayServer", {}) \/ Fail

\* Full mode with a relay port: NewMultiaddr, NewRelayServer and
\* SetupAliveService may each fail.
StartRelayServer ==
    /\ pc = "relayServer"
    /\ \/ cfg.relayPort /\ (Goto("telepoolStart", {"relayServer"}) \/ Fail)
       \/ ~cfg.relayPort /\ Goto("telepoolStart", {})

\* Mutant: the telegram pool is never started.
StartTelepoolMissing ==
    /\ pc = "telepoolStart"
    /\ Return({})

\* telepool.SetAppSyncer(syncer); telepool.Start(); return m, nil.
StartTelepool ==
    /\ pc = "telepoolStart"
    /\ Return({"telepool"})

\* Server.Close closes the base network and the DataDog profiler only.
Close ==
    /\ result = "ok" /\ ~closed
    /\ running' = running \ {"baseNet"}
    /\ closed' = TRUE
    /\ UNCHANGED <<cfg, pc, result>>

\* The process ends after NewServer failed or the server was closed.
Ended ==
    /\ result = "err" \/ closed
    /\ UNCHANGED vars

Next ==
    \/ SetupLogger \/ SetupDataDir \/ SetupDataDog \/ SetupSecretsManager
    \/ NewBaseNetwork \/ NewBlockchain \/ NewEdgeNetwork
    \/ SetupTelepoolConsensus \/ InitGenesis \/ ReadValidatorKey
    \/ InitMinerService \/ SetupGRPC \/ StartBaseNetwork \/ StartConsensus
    \/ StartEdgeNetwork \/ SetupRelayClient \/ NewApplicationEndpoint
    \/ StartAlive \/ StartSyncer \/ SetupJSONRPC \/ StartRelayServer
    \/ StartTelepool \/ Close \/ Ended

Spec == Init /\ [][Next]_vars

-----------------------------------------------------------------------------
\* What each component uses once it runs: consensus and the telegram pool
\* talk over the base and edge networks, the syncer over the edge network; the relay
\* server's alive service and the telegram pool use the syncer.
Needs ==
    [c \in Components |->
        CASE c = "consensus"   -> {"baseNet"}
          [] c = "syncer"      -> {"edgeNet"}
          [] c = "relayServer" -> {"syncer"}
          [] c = "telepool"    -> {"syncer", "baseNet", "edgeNet"}
          [] OTHER             -> {}]

\* What a server NewServer returned without error runs, per configuration.
Expected(c) ==
    IF c.mode = "full"
    THEN {"grpc", "baseNet", "consensus", "edgeNet", "syncer", "telepool"}
         \cup (IF c.relayPort THEN {"relayServer"} ELSE {})
    ELSE {"grpc", "alive"} \cup (IF c.relayOn THEN {"relayReserv"} ELSE {})

\* NewServer starts a component only once everything it uses is running:
\* the base network before consensus, the edge network before the syncer,
\* the syncer before the relay server and the telegram pool.
StartsAfterDependencies ==
    [][\A c \in running' \ running : Needs[c] \subseteq running]_vars

\* A server that NewServer returned without error runs exactly the
\* components its running mode and relay options call for.
StartedAsConfigured ==
    (result = "ok" /\ ~closed) => running = Expected(cfg)

\* Server.Close stops what NewServer started, the app syncer among them
\* (whose own Close, spec 4.7, is what stops its goroutines).
CloseStopsAll == closed => running = {}
=============================================================================
