---------------------------- MODULE AgentEnroll -----------------------------
(***************************************************************************)
(* Enrolling an agent through the API, for one address.  Create issues a   *)
(* bundle of certificates (CA, server, client), encrypted for the caller   *)
(* under a key that rotates; the caller deploys the agent with it; Verify  *)
(* decrypts the bundle, connects to the agent, adds it as a provider of    *)
(* the configuration that was active when the request came and to the pool *)
(* of agents, loads its routes and stores the bundle.  The configuration   *)
(* is reloaded meanwhile.                                                  *)
(***************************************************************************)
EXTENDS Integers, Sequences

CONSTANTS Verifiers,    \* Verify requests
          MaxBundles,   \* bound: bundles issued
          MaxKeys,      \* bound: key rotations
          MaxStates     \* bound: configurations loaded

ASSUME EnrollAssumption == Verifiers \subseteq Nat \ {0} /\ MaxStates \in Nat \ {0}

VARIABLES
  enKey,       \* encryptionKey
  enBundle,    \* bundles issued: the key each is encrypted under
  enRuns,      \* bundle the agent runs with, 0: no agent
  enFile,      \* bundle in the certificate file of the address, 0: none
  enPool,      \* bundle and owner (request or state) of the pool's agent; owner 0: none
  enListed,    \* configurations that list the agent
  enActive,    \* active configuration
  enProv,      \* each configuration: owner of its provider for the agent, 0: none
  enReload,    \* reload: "idle", "cleared", "added"
  enNew,       \* configuration being loaded
  enPc,        \* each request: "new", "checked", "inited", "stored", "added", "loaded", "ok", "failed", "unsaved"
  enReq,       \* each request: its bundle and the configuration it has loaded
  enAlone      \* requests that no reload has met, nor requests that one has met

enVars == <<enKey, enBundle, enRuns, enFile, enPool, enListed, enActive, enProv,
            enReload, enNew, enPc, enReq, enAlone>>

NoAgent == [bundle |-> 0, owner |-> 0]
States == 1..MaxStates

EnrollInit ==
  /\ enKey = 1 /\ enBundle = <<>> /\ enRuns = 0 /\ enFile = 0 /\ enPool = NoAgent
  /\ enListed = {} /\ enActive = 1 /\ enProv = [s \in States |-> 0]
  /\ enReload = "idle" /\ enNew = 1
  /\ enPc = [v \in Verifiers |-> "new"]
  /\ enReq = [v \in Verifiers |-> [bundle |-> 0, state |-> 1]]
  /\ enAlone = Verifiers

-----------------------------------------------------------------------------
(* rotateKey, every rotateKeyInterval.                                     *)
RotateKey ==
  /\ enKey < MaxKeys /\ enKey' = enKey + 1
  /\ UNCHANGED <<enBundle, enRuns, enFile, enPool, enListed, enActive, enProv, enReload, enNew,
                 enPc, enReq, enAlone>>

(* NewAgent: a new CA with the two certificates it signs, one bundle.      *)
NewAgent(key) == Append(enBundle, key)

(* Create: refused when the pool has the address, else a new bundle,       *)
(* encrypted under the key of this moment.                                 *)
Create ==
  /\ enPool.owner = 0 /\ Len(enBundle) < MaxBundles
  /\ enBundle' = NewAgent(enKey)
  /\ UNCHANGED <<enKey, enRuns, enFile, enPool, enListed, enActive, enProv, enReload, enNew,
                 enPc, enReq, enAlone>>

(* The caller (re)deploys the agent with a bundle.                         *)
Deploy(b) ==
  /\ enRuns # b /\ enRuns' = b
  /\ UNCHANGED <<enKey, enBundle, enFile, enPool, enListed, enActive, enProv, enReload, enNew,
                 enPc, enReq, enAlone>>

VGoto(v, from, next) == enPc[v] = from /\ enPc' = [enPc EXCEPT ![v] = next]

(* fromEncryptedPEMPairResponse and Decrypt: only under the key it was     *)
(* encrypted with.                                                         *)
Decrypts(b) == enBundle[b] = enKey

(* Verify, and verifyNewAgent up to the agent: decrypted, not in the       *)
(* active configuration and not in the pool.                               *)
Check(v, b) ==
  /\ IF Decrypts(b) /\ enActive \notin enListed /\ enPool.owner = 0
       THEN VGoto(v, "new", "checked") ELSE VGoto(v, "new", "failed")
  /\ enReq' = [enReq EXCEPT ![v] = [bundle |-> b, state |-> enActive]]
  /\ UNCHANGED <<enKey, enBundle, enRuns, enFile, enPool, enListed, enActive, enProv, enReload,
                 enNew, enAlone>>

(* InitWithCerts: the agent trusts the client certificate only if it runs  *)
(* with the same bundle, and may be unreachable.                           *)
InitWithCerts(v) ==
  /\ \/ VGoto(v, "checked", "failed")
     \/ enReq[v].bundle = enRuns /\ VGoto(v, "checked", "inited")
  /\ UNCHANGED <<enKey, enBundle, enRuns, enFile, enPool, enListed, enActive, enProv, enReload,
                 enNew, enReq, enAlone>>

(* LoadOrStoreProvider, in the configuration loaded at the start.          *)
StoreProvider(v) ==
  /\ IF enProv[enReq[v].state] # 0
       THEN VGoto(v, "inited", "failed") /\ UNCHANGED enProv
       ELSE /\ VGoto(v, "inited", "stored")
            /\ enProv' = [enProv EXCEPT ![enReq[v].state] = v]
  /\ UNCHANGED <<enKey, enBundle, enRuns, enFile, enPool, enListed, enActive, enReload, enNew,
                 enReq, enAlone>>

(* agentpool.Add keeps the agent it has.  The request then fails with its  *)
(* provider stored.                                                        *)
AddAgent(v) ==
  /\ IF enPool.owner # 0
       THEN VGoto(v, "stored", "failed") /\ UNCHANGED enPool
       ELSE /\ VGoto(v, "stored", "added")
            /\ enPool' = [bundle |-> enReq[v].bundle, owner |-> v]
  /\ UNCHANGED <<enKey, enBundle, enRuns, enFile, enListed, enActive, enProv, enReload, enNew,
                 enReq, enAlone>>

(* Mutant: the agent stays in the pool.                                    *)
UndoAddMutant(v) ==
  /\ enProv' = [enProv EXCEPT ![enReq[v].state] = 0]
  /\ UNCHANGED enPool

(* DeleteProvider and agentpool.Remove, both by key.                       *)
UndoAdd(v) ==
  /\ enProv' = [enProv EXCEPT ![enReq[v].state] = 0]
  /\ enPool' = NoAgent

LoadRoutes(v) ==
  /\ \/ VGoto(v, "added", "loaded") /\ UNCHANGED <<enProv, enPool>>
     \/ VGoto(v, "added", "failed") /\ UndoAdd(v)
  /\ UNCHANGED <<enKey, enBundle, enRuns, enFile, enListed, enActive, enReload, enNew, enReq, enAlone>>

(* ZipCert and WriteFile; a failure leaves what verifyNewAgent has done.   *)
SaveCerts(v) ==
  /\ \/ VGoto(v, "loaded", "ok") /\ enFile' = enReq[v].bundle
     \/ VGoto(v, "loaded", "unsaved") /\ UNCHANGED enFile
  /\ UNCHANGED <<enKey, enBundle, enRuns, enPool, enListed, enActive, enProv, enReload, enNew,
                 enReq, enAlone>>

-----------------------------------------------------------------------------
Ended(v) == enPc[v] \in {"ok", "failed", "unsaved"}

(* A reload meets the requests under way, which go on to meet later ones.  *)
Met == enAlone' = IF \A v \in Verifiers : enPc[v] = "new" \/ Ended(v)
                    THEN {v \in enAlone : ~Ended(v)} ELSE {}

(* Reload: loadRouteProviders empties the pool before anything else.       *)
ReloadBegin ==
  /\ enReload = "idle" /\ enNew < MaxStates
  /\ enReload' = "cleared" /\ enNew' = enNew + 1 /\ enPool' = NoAgent
  /\ \E listed \in BOOLEAN : enListed' = IF listed THEN enListed \union {enNew'} ELSE enListed
  /\ Met
  /\ UNCHANGED <<enKey, enBundle, enRuns, enFile, enActive, enProv, enPc, enReq>>

(* An agent of the configuration: Init with the bundle of the file, Add,   *)
(* and the provider whether Init succeeded or not.                         *)
ReloadAgents ==
  /\ enReload = "cleared" /\ enReload' = "added"
  /\ IF enNew \in enListed
       THEN /\ enProv' = [enProv EXCEPT ![enNew] = -enNew]
            /\ enPool' = IF enFile # 0 /\ enFile = enRuns /\ enPool.owner = 0
                           THEN [bundle |-> enFile, owner |-> -enNew] ELSE enPool
       ELSE UNCHANGED <<enProv, enPool>>
  /\ Met
  /\ UNCHANGED <<enKey, enBundle, enRuns, enFile, enListed, enActive, enNew, enPc, enReq>>

(* The new configuration takes over, or an error keeps the last one.       *)
ReloadEnd ==
  /\ enReload = "added" /\ enReload' = "idle"
  /\ enActive' \in {enActive, enNew}
  /\ Met
  /\ UNCHANGED <<enKey, enBundle, enRuns, enFile, enPool, enListed, enProv, enNew, enPc, enReq>>

EnrollNext ==
  \/ RotateKey \/ Create \/ ReloadBegin \/ ReloadAgents \/ ReloadEnd
  \/ \E b \in DOMAIN enBundle : Deploy(b) \/ \E v \in Verifiers : Check(v, b)
  \/ \E v \in Verifiers : \/ InitWithCerts(v) \/ StoreProvider(v) \/ AddAgent(v)
                          \/ LoadRoutes(v) \/ SaveCerts(v)

EnrollSpec == EnrollInit /\ [][EnrollNext]_enVars

-----------------------------------------------------------------------------
(* The certificate file holds only a bundle with which a request reached   *)
(* the agent, and the pool only agents reached with theirs (InitWithCerts  *)
(* before Add and before WriteFile).                                       *)
Proven(b) == \E v \in Verifiers : enReq[v].bundle = b /\ enPc[v] \notin {"new", "checked", "failed"}

OnlyProven ==
  /\ enFile # 0 => \E v \in Verifiers : enReq[v].bundle = enFile /\ enPc[v] = "ok"
  /\ enPool.owner > 0 => Proven(enPool.bundle)

(* All or nothing, when no reload comes between: a request that succeeded  *)
(* has its provider in the active configuration, its agent in the pool and *)
(* its bundle in the file, and of one that failed neither is left; two     *)
(* requests for the address do not undo each other (verifyNewAgent).       *)
VerifyAllOrNothing ==
  \A v \in enAlone :
    /\ enPc[v] = "ok" => /\ enProv[enActive] = v /\ enPool.owner = v
                         /\ enFile = enReq[v].bundle
    /\ enPc[v] = "failed" => enProv[enActive] # v /\ enPool.owner # v

(* What enrolling keeps.                                                   *)
EnrolmentSound == OnlyProven /\ VerifyAllOrNothing
=============================================================================
