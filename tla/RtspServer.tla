----------------------------- MODULE RtspServer -----------------------------
(***************************************************************************)
(* The two RtspServer objects of the program and the media server they     *)
(* share: main builds them, feeds them while it plays and takes them down, *)
(* first by stopServer, again when the globals are destroyed; the media    *)
(* library reports that a stream is registered by a callback, which starts *)
(* a pusher.  A handle is the number of the pusher, 0 is nullptr.          *)
(*                                                                         *)
(* s_mutex has no variable: only main takes it.  The sleeps of cleanup     *)
(* order nothing, so they are not there either.                            *)
(***************************************************************************)
EXTENDS Integers, Sequences, FiniteSets

CONSTANTS
    MaxRegist,  \* bound on the registrations of a stream
    Asynchrony  \* what the library may do: TRUE, call back at any time while a
                \* stream exists, or FALSE, only on the thread that feeds it

ASSUME BoundAssumption == MaxRegist \in Nat /\ Asynchrony \subseteq BOOLEAN

Servers == {"server_detect", "server_raw"}

(* What main does with the servers, in order; the globals are destroyed in *)
(* the reverse order of their declarations.                                *)
Script == << <<"construct", "server_detect">>, <<"initServer", "server_detect">>,
             <<"initMedia", "server_detect">>,
             <<"construct", "server_raw">>, <<"initServer", "server_raw">>,
             <<"initMedia", "server_raw">>,
             <<"play", "server_raw">>,
             <<"pusher", "server_detect">>, <<"forget", "server_detect">>,
             <<"media", "server_detect">>, <<"count", "server_detect">>,
             <<"pusher", "server_raw">>, <<"forget", "server_raw">>,
             <<"media", "server_raw">>, <<"count", "server_raw">>,
             <<"destroy", "server_detect">>,
             <<"pusher", "server_detect">>, <<"forget", "server_detect">>,
             <<"media", "server_detect">>, <<"count", "server_detect">>,
             <<"destroy", "server_raw">>,
             <<"pusher", "server_raw">>, <<"forget", "server_raw">>,
             <<"media", "server_raw">>, <<"count", "server_raw">> >>

VARIABLES
    at,                 \* main's place in the script
    m_mediaHandle, m_pusherHandle, m_isActive, m_isDestroying,
    s_instanceCount, s_serverInitialized,
    cb,                 \* the callback of each stream: where it is, if anywhere
    created, live,      \* pushers created for a stream, those not released
    running,            \* external: the media server, "none", "up" or "failed"
    async               \* external: what the library does, of Asynchrony

objectVars == <<m_mediaHandle, m_pusherHandle, m_isActive, m_isDestroying>>
staticVars == <<s_instanceCount, s_serverInitialized, running>>
pusherVars == <<created, live>>
vars == <<at, objectVars, staticVars, cb, pusherVars, async>>

-----------------------------------------------------------------------------
Init ==
    /\ at = 1
    /\ m_mediaHandle = [s \in Servers |-> FALSE]
    /\ m_pusherHandle = [s \in Servers |-> 0]
    /\ m_isActive = [s \in Servers |-> FALSE]
    /\ m_isDestroying = [s \in Servers |-> FALSE]
    /\ s_instanceCount = 0 /\ s_serverInitialized = FALSE /\ running = "none"
    /\ cb = [s \in Servers |-> "none"]
    /\ created = [s \in Servers |-> 0]
    /\ live = [s \in Servers |-> {}]
    /\ async \in Asynchrony

(* Main's next step is `what', for s.                                      *)
Main(what, s) ==
    at <= Len(Script) /\ Script[at] = <<what, s>> /\ at' = at + 1 /\ UNCHANGED async

Construct(s) ==
    /\ Main("construct", s)
    /\ m_isActive' = [m_isActive EXCEPT ![s] = TRUE]
    /\ s_instanceCount' = s_instanceCount + 1
    /\ UNCHANGED <<m_mediaHandle, m_pusherHandle, m_isDestroying, s_serverInitialized,
                   running, cb, pusherVars>>

(* The first object starts the media server.  That the port may be taken   *)
(* is not looked at: the server counts as initialised all the same.        *)
InitServer(s) ==
    /\ Main("initServer", s)
    /\ s_serverInitialized' = TRUE
    /\ IF s_serverInitialized THEN UNCHANGED running ELSE running' \in {"up", "failed"}
    /\ UNCHANGED <<objectVars, s_instanceCount, cb, pusherVars>>

InitZlmMedia(s) ==
    /\ Main("initMedia", s)
    /\ m_mediaHandle' = [m_mediaHandle EXCEPT ![s] = TRUE]
    /\ UNCHANGED <<m_pusherHandle, m_isActive, m_isDestroying, staticVars, cb, pusherVars>>

(* Mutant: the servers are taken down while the streams are still fed.     *)
EndPlayAtOnce ==
    /\ Main("play", "server_raw")
    /\ UNCHANGED <<objectVars, staticVars, cb, pusherVars>>

(* Ctrl+C, and the player and the encoder are gone: nothing is fed any     *)
(* more.                                                                   *)
EndPlay ==
    /\ Main("play", "server_raw")
    /\ async \/ \A s \in Servers : cb[s] = "none"
    /\ UNCHANGED <<objectVars, staticVars, cb, pusherVars>>

(* Mutant: the destructor alone releases the pusher.                       *)
ReleasePusherIfDestroying(s) ==
    /\ Main("pusher", s)
    /\ live' = IF m_isDestroying[s] THEN [live EXCEPT ![s] = @ \ {m_pusherHandle[s]}]
                                    ELSE live
    /\ UNCHANGED <<objectVars, staticVars, cb, created>>

(* cleanup releases the pusher its handle names ...                        *)
ReleasePusher(s) ==
    /\ Main("pusher", s)
    /\ live' = [live EXCEPT ![s] = @ \ {m_pusherHandle[s]}]
    /\ UNCHANGED <<objectVars, staticVars, cb, created>>

(* Mutant: the handle is kept.                                             *)
KeepPusher(s) ==
    /\ Main("forget", s)
    /\ UNCHANGED <<objectVars, staticVars, cb, pusherVars>>

(* ... and forgets the handle.                                             *)
ForgetPusher(s) ==
    /\ Main("forget", s)
    /\ m_pusherHandle' = [m_pusherHandle EXCEPT ![s] = 0]
    /\ UNCHANGED <<m_mediaHandle, m_isActive, m_isDestroying, staticVars, cb, pusherVars>>

ReleaseMedia(s) ==
    /\ Main("media", s)
    /\ m_mediaHandle' = [m_mediaHandle EXCEPT ![s] = FALSE]
    /\ UNCHANGED <<m_pusherHandle, m_isActive, m_isDestroying, staticVars, cb, pusherVars>>

(* Mutant: the first object that goes stops the server.                    *)
CountDownStopsFirst(s) ==
    /\ Main("count", s)
    /\ m_isActive' = [m_isActive EXCEPT ![s] = FALSE]
    /\ s_instanceCount' = s_instanceCount - (IF m_isActive[s] THEN 1 ELSE 0)
    /\ IF m_isActive[s] /\ s_serverInitialized
          THEN running' = "none" /\ s_serverInitialized' = FALSE
          ELSE UNCHANGED <<running, s_serverInitialized>>
    /\ UNCHANGED <<m_mediaHandle, m_pusherHandle, m_isDestroying, cb, pusherVars>>

(* The end of cleanup: the first one of an object counts it, and the last  *)
(* object counted stops the media server.                                  *)
CountDown(s) ==
    /\ Main("count", s)
    /\ m_isActive' = [m_isActive EXCEPT ![s] = FALSE]
    /\ s_instanceCount' = s_instanceCount - (IF m_isActive[s] THEN 1 ELSE 0)
    /\ IF m_isActive[s] /\ s_instanceCount' = 0 /\ s_serverInitialized
          THEN running' = "none" /\ s_serverInitialized' = FALSE
          ELSE UNCHANGED <<running, s_serverInitialized>>
    /\ UNCHANGED <<m_mediaHandle, m_pusherHandle, m_isDestroying, cb, pusherVars>>

(* The destructor, before it cleans up again.                              *)
Destroy(s) ==
    /\ Main("destroy", s)
    /\ m_isDestroying' = [m_isDestroying EXCEPT ![s] = TRUE]
    /\ UNCHANGED <<m_mediaHandle, m_pusherHandle, m_isActive, staticVars, cb, pusherVars>>

-----------------------------------------------------------------------------
(* The library calls mediasourceRegistCallback for a stream it registered. *)
(* (A callback with regist = 0 does nothing.)                              *)
RegistCallback(s) ==
    /\ cb[s] = "none" /\ m_mediaHandle[s] /\ created[s] < MaxRegist
    /\ async \/ Script[at][1] = "play"
    /\ cb' = [cb EXCEPT ![s] = IF m_isDestroying[s] THEN "none" ELSE "init"]
    /\ UNCHANGED <<at, async, objectVars, staticVars, pusherVars>>

(* zlmPusherInit creates a pusher and overwrites the handle; then it sets  *)
(* the result callback of the pusher the handle names.                     *)
ZlmPusherInit(s) ==
    /\ cb[s] = "init"
    /\ IF m_isDestroying[s]
          THEN cb' = [cb EXCEPT ![s] = "start"] /\ UNCHANGED <<m_pusherHandle, pusherVars>>
          ELSE /\ created' = [created EXCEPT ![s] = @ + 1]
               /\ live' = [live EXCEPT ![s] = @ \cup {created'[s]}]
               /\ m_pusherHandle' = [m_pusherHandle EXCEPT ![s] = created'[s]]
               /\ cb' = [cb EXCEPT ![s] = "result"]
    /\ UNCHANGED <<at, async, m_mediaHandle, m_isActive, m_isDestroying, staticVars>>

SetOnResult(s) ==
    /\ cb[s] = "result"
    /\ cb' = [cb EXCEPT ![s] = "start"]
    /\ UNCHANGED <<at, async, objectVars, staticVars, pusherVars>>

ZlmPusherStart(s) ==
    /\ cb[s] = "start"
    /\ cb' = [cb EXCEPT ![s] =
                 IF m_isDestroying[s] \/ m_pusherHandle[s] = 0 THEN "none" ELSE "publish"]
    /\ UNCHANGED <<at, async, objectVars, staticVars, pusherVars>>

Publish(s) ==
    /\ cb[s] = "publish"
    /\ cb' = [cb EXCEPT ![s] = "none"]
    /\ UNCHANGED <<at, async, objectVars, staticVars, pusherVars>>

Next ==
    \/ EndPlay
    \/ \E s \in Servers :
          \/ Construct(s) \/ InitServer(s) \/ InitZlmMedia(s)
          \/ ReleasePusher(s) \/ ForgetPusher(s) \/ ReleaseMedia(s) \/ CountDown(s)
          \/ Destroy(s)
          \/ RegistCallback(s) \/ ZlmPusherInit(s) \/ SetOnResult(s)
          \/ ZlmPusherStart(s) \/ Publish(s)

Spec == Init /\ [][Next]_vars

-----------------------------------------------------------------------------
TypeOK ==
    /\ at \in 1..(Len(Script) + 1)
    /\ m_mediaHandle \in [Servers -> BOOLEAN]
    /\ m_pusherHandle \in [Servers -> 0..MaxRegist]
    /\ m_isActive \in [Servers -> BOOLEAN] /\ m_isDestroying \in [Servers -> BOOLEAN]
    /\ s_instanceCount \in 0..Cardinality(Servers)
    /\ s_serverInitialized \in BOOLEAN /\ running \in {"none", "up", "failed"}
    /\ cb \in [Servers -> {"none", "init", "result", "start", "publish"}]
    /\ created \in [Servers -> 0..MaxRegist]
    /\ live \in [Servers -> SUBSET (1..MaxRegist)]
    /\ async \in Asynchrony

(* A stream never outlives the media server it was made for, whether that  *)
(* could be started or not: the last object stops the server, however      *)
(* often cleanup runs (rtsp_server.cpp:45-63, 88-94).                      *)
MediaNeedsServer == \A s \in Servers : m_mediaHandle[s] => running # "none"

(* The count is the number of objects not cleaned up yet, through both     *)
(* cleanups of each (rtsp_server.cpp:46).                                  *)
CountMatches == s_instanceCount = Cardinality({s \in Servers : m_isActive[s]})

(* Main releases no pusher twice: what a handle names is not released yet, *)
(* but between the release and the moment the handle is cleared            *)
(* (rtsp_server.cpp:31-34).                                                *)
Forgetting(s) == at <= Len(Script) /\ Script[at] = <<"forget", s>>
ReleasedOnce ==
    \A s \in Servers :
        m_pusherHandle[s] # 0 /\ ~ Forgetting(s) => m_pusherHandle[s] \in live[s]

(* Where the library calls back on the feeding threads, a callback uses    *)
(* live pushers only (rtsp_server.cpp:139, 145).                           *)
PusherUsedAlive ==
    ~ async =>
        \A s \in Servers : cb[s] \in {"result", "publish"} => m_pusherHandle[s] \in live[s]

(* cleanup has run for s.                                                  *)
Stopped(s) == at > 1 /\ \E k \in 1..(at - 1) : Script[k] = <<"count", s>>

(* Then, too, a pusher that is left after cleanup is one whose handle a    *)
(* later registration took.                                                *)
LeftOnlyIfReplaced ==
    ~ async => \A s \in Servers : Stopped(s) => \A p \in live[s] : p < created[s]

(* What cleanup's comment says: pushing is stopped (rtsp_server.cpp:30).   *)
PushingStopped == \A s \in Servers : Stopped(s) => live[s] = {}
=============================================================================
