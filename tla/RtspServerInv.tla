--------------------------- MODULE RtspServerInv ---------------------------
(***************************************************************************)
(* The inductive invariant of RtspServer.  Main's calls are a script, so   *)
(* what they do to the objects and the statics is known from main's place; *)
(* what is left to say is about the pushers, which callbacks create at any *)
(* of these places.                                                        *)
(***************************************************************************)
EXTENDS RtspServer

(* The places at which s is an active object, has a stream, has its        *)
(* pusher's release behind it, is being destroyed.                         *)
ActivePlaces(s) == IF s = "server_detect" THEN 2..11 ELSE 5..15
MediaPlaces(s) == IF s = "server_detect" THEN 4..10 ELSE 7..14
ReleasedPlaces(s) == IF s = "server_detect" THEN 9..26 ELSE 13..26
ForgetPlaces(s) == IF s = "server_detect" THEN {9, 18} ELSE {13, 23}
DestroyPlaces(s) == IF s = "server_detect" THEN 17..26 ELSE 22..26
ServerPlaces == 3..15
FedPlace == 7

ObjectsFollow ==
    \A s \in Servers :
        /\ m_isActive[s] <=> at \in ActivePlaces(s)
        /\ m_mediaHandle[s] <=> at \in MediaPlaces(s)
        /\ m_isDestroying[s] <=> at \in DestroyPlaces(s)
StaticsFollow ==
    /\ s_instanceCount = (IF at \in ActivePlaces("server_detect") THEN 1 ELSE 0)
                         + (IF at \in ActivePlaces("server_raw") THEN 1 ELSE 0)
    /\ running # "none" <=> at \in ServerPlaces
    /\ s_serverInitialized <=> at \in ServerPlaces

(* A handle names the last pusher, which is live but between the release   *)
(* and the clearing of the handle.                                         *)
HandlesNameLast ==
    \A s \in Servers :
        /\ m_pusherHandle[s] \in {0, created[s]}
        /\ live[s] \subseteq 1..created[s]
        /\ m_pusherHandle[s] # 0 /\ at \notin ForgetPlaces(s) => m_pusherHandle[s] \in live[s]

(* With callbacks on the feeding threads there are none but while main     *)
(* plays; until cleanup the handle names the last pusher that was created, *)
(* afterwards that pusher is gone.                                         *)
CallbacksWhileFed ==
    ~ async =>
        \A s \in Servers :
            /\ cb[s] # "none" => at = FedPlace
            /\ cb[s] \in {"result", "publish"} => m_pusherHandle[s] # 0
            /\ at \notin ReleasedPlaces(s) => m_pusherHandle[s] = created[s]
            /\ at \in ReleasedPlaces(s) => created[s] \notin live[s]

(* A callback that is about to create a pusher is one of a registration.    *)
CreatedBounded == \A s \in Servers : cb[s] = "init" => created[s] < MaxRegist

Inv == /\ TypeOK /\ ObjectsFollow /\ StaticsFollow /\ HandlesNameLast
       /\ CallbacksWhileFed /\ CreatedBounded
=============================================================================
