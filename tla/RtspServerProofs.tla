-------------------------- MODULE RtspServerProofs --------------------------
(***************************************************************************)
(* The invariant of RtspServerInv, for any number of registrations and     *)
(* both assumptions about the library, and the properties that follow from *)
(* it.  A lemma for each action: for those of main first where the script  *)
(* is, then what that changes.                                             *)
(***************************************************************************)
EXTENDS RtspServerInv, FiniteSetTheorems, TLAPS

(* The script's length ...                                                 *)
LEMMA ScriptLength == Len(Script) = 25
  BY DEF Script

(* ... its entries ...                                                     *)
LEMMA ScriptValues ==
    /\ Script[1] = <<"construct", "server_detect">>
    /\ Script[2] = <<"initServer", "server_detect">>
    /\ Script[3] = <<"initMedia", "server_detect">>
    /\ Script[4] = <<"construct", "server_raw">>
    /\ Script[5] = <<"initServer", "server_raw">>
    /\ Script[6] = <<"initMedia", "server_raw">>
    /\ Script[7] = <<"play", "server_raw">>
    /\ Script[8] = <<"pusher", "server_detect">>
    /\ Script[9] = <<"forget", "server_detect">>
    /\ Script[10] = <<"media", "server_detect">>
    /\ Script[11] = <<"count", "server_detect">>
    /\ Script[12] = <<"pusher", "server_raw">>
    /\ Script[13] = <<"forget", "server_raw">>
    /\ Script[14] = <<"media", "server_raw">>
    /\ Script[15] = <<"count", "server_raw">>
    /\ Script[16] = <<"destroy", "server_detect">>
    /\ Script[17] = <<"pusher", "server_detect">>
    /\ Script[18] = <<"forget", "server_detect">>
    /\ Script[19] = <<"media", "server_detect">>
    /\ Script[20] = <<"count", "server_detect">>
    /\ Script[21] = <<"destroy", "server_raw">>
    /\ Script[22] = <<"pusher", "server_raw">>
    /\ Script[23] = <<"forget", "server_raw">>
    /\ Script[24] = <<"media", "server_raw">>
    /\ Script[25] = <<"count", "server_raw">>
  BY DEF Script

(* ... their parts ...                                                     *)
LEMMA ScriptNames ==
    /\ Script[1][1] = "construct" /\ Script[1][2] = "server_detect"
    /\ Script[2][1] = "initServer" /\ Script[2][2] = "server_detect"
    /\ Script[3][1] = "initMedia" /\ Script[3][2] = "server_detect"
    /\ Script[4][1] = "construct" /\ Script[4][2] = "server_raw"
    /\ Script[5][1] = "initServer" /\ Script[5][2] = "server_raw"
    /\ Script[6][1] = "initMedia" /\ Script[6][2] = "server_raw"
    /\ Script[7][1] = "play" /\ Script[7][2] = "server_raw"
    /\ Script[8][1] = "pusher" /\ Script[8][2] = "server_detect"
    /\ Script[9][1] = "forget" /\ Script[9][2] = "server_detect"
    /\ Script[10][1] = "media" /\ Script[10][2] = "server_detect"
    /\ Script[11][1] = "count" /\ Script[11][2] = "server_detect"
    /\ Script[12][1] = "pusher" /\ Script[12][2] = "server_raw"
    /\ Script[13][1] = "forget" /\ Script[13][2] = "server_raw"
    /\ Script[14][1] = "media" /\ Script[14][2] = "server_raw"
    /\ Script[15][1] = "count" /\ Script[15][2] = "server_raw"
    /\ Script[16][1] = "destroy" /\ Script[16][2] = "server_detect"
    /\ Script[17][1] = "pusher" /\ Script[17][2] = "server_detect"
    /\ Script[18][1] = "forget" /\ Script[18][2] = "server_detect"
    /\ Script[19][1] = "media" /\ Script[19][2] = "server_detect"
    /\ Script[20][1] = "count" /\ Script[20][2] = "server_detect"
    /\ Script[21][1] = "destroy" /\ Script[21][2] = "server_raw"
    /\ Script[22][1] = "pusher" /\ Script[22][2] = "server_raw"
    /\ Script[23][1] = "forget" /\ Script[23][2] = "server_raw"
    /\ Script[24][1] = "media" /\ Script[24][2] = "server_raw"
    /\ Script[25][1] = "count" /\ Script[25][2] = "server_raw"
  BY ScriptValues

(* ... and their places.                                                   *)
LEMMA ScriptNumbers ==
    ASSUME NEW k \in 1..25
    PROVE  k = 1 \/ k = 2 \/ k = 3 \/ k = 4 \/ k = 5 \/ k = 6 \/ k = 7 \/ k = 8
        \/ k = 9 \/ k = 10 \/ k = 11 \/ k = 12 \/ k = 13 \/ k = 14 \/ k = 15 \/ k = 16
        \/ k = 17 \/ k = 18 \/ k = 19 \/ k = 20 \/ k = 21 \/ k = 22 \/ k = 23
        \/ k = 24 \/ k = 25
  OBVIOUS

(* A step of main is the script's entry at its place.                      *)
LEMMA MainPlace ==
    ASSUME TypeOK, NEW what, NEW s, Main(what, s)
    PROVE  at \in 1..25 /\ at' = at + 1 /\ Script[at] = <<what, s>> /\ async' = async
  BY ScriptLength DEF TypeOK, Main

(* The places of each call of main.                                        *)
LEMMA ConstructPlace ==
    ASSUME NEW k \in 1..25, NEW s \in Servers, Script[k] = <<"construct", s>>
    PROVE  (s = "server_detect" /\ k = 1) \/ (s = "server_raw" /\ k = 4)
<1>1. Script[k][1] = "construct" /\ Script[k][2] = s
  OBVIOUS
<1> QED
  BY <1>1, ScriptNumbers, ScriptNames

LEMMA InitServerPlace ==
    ASSUME NEW k \in 1..25, NEW s \in Servers, Script[k] = <<"initServer", s>>
    PROVE  (s = "server_detect" /\ k = 2) \/ (s = "server_raw" /\ k = 5)
<1>1. Script[k][1] = "initServer" /\ Script[k][2] = s
  OBVIOUS
<1> QED
  BY <1>1, ScriptNumbers, ScriptNames

LEMMA InitZlmMediaPlace ==
    ASSUME NEW k \in 1..25, NEW s \in Servers, Script[k] = <<"initMedia", s>>
    PROVE  (s = "server_detect" /\ k = 3) \/ (s = "server_raw" /\ k = 6)
<1>1. Script[k][1] = "initMedia" /\ Script[k][2] = s
  OBVIOUS
<1> QED
  BY <1>1, ScriptNumbers, ScriptNames

LEMMA ReleasePusherPlace ==
    ASSUME NEW k \in 1..25, NEW s \in Servers, Script[k] = <<"pusher", s>>
    PROVE  (s = "server_detect" /\ k = 8) \/ (s = "server_detect" /\ k = 17)
        \/ (s = "server_raw" /\ k = 12) \/ (s = "server_raw" /\ k = 22)
<1>1. Script[k][1] = "pusher" /\ Script[k][2] = s
  OBVIOUS
<1> QED
  BY <1>1, ScriptNumbers, ScriptNames

LEMMA ForgetPusherPlace ==
    ASSUME NEW k \in 1..25, NEW s \in Servers, Script[k] = <<"forget", s>>
    PROVE  (s = "server_detect" /\ k = 9) \/ (s = "server_detect" /\ k = 18)
        \/ (s = "server_raw" /\ k = 13) \/ (s = "server_raw" /\ k = 23)
<1>1. Script[k][1] = "forget" /\ Script[k][2] = s
  OBVIOUS
<1> QED
  BY <1>1, ScriptNumbers, ScriptNames

LEMMA ReleaseMediaPlace ==
    ASSUME NEW k \in 1..25, NEW s \in Servers, Script[k] = <<"media", s>>
    PROVE  (s = "server_detect" /\ k = 10) \/ (s = "server_detect" /\ k = 19)
        \/ (s = "server_raw" /\ k = 14) \/ (s = "server_raw" /\ k = 24)
<1>1. Script[k][1] = "media" /\ Script[k][2] = s
  OBVIOUS
<1> QED
  BY <1>1, ScriptNumbers, ScriptNames

LEMMA CountDownPlace ==
    ASSUME NEW k \in 1..25, NEW s \in Servers, Script[k] = <<"count", s>>
    PROVE  (s = "server_detect" /\ k = 11) \/ (s = "server_detect" /\ k = 20)
        \/ (s = "server_raw" /\ k = 15) \/ (s = "server_raw" /\ k = 25)
<1>1. Script[k][1] = "count" /\ Script[k][2] = s
  OBVIOUS
<1> QED
  BY <1>1, ScriptNumbers, ScriptNames

LEMMA DestroyPlace ==
    ASSUME NEW k \in 1..25, NEW s \in Servers, Script[k] = <<"destroy", s>>
    PROVE  (s = "server_detect" /\ k = 16) \/ (s = "server_raw" /\ k = 21)
<1>1. Script[k][1] = "destroy" /\ Script[k][2] = s
  OBVIOUS
<1> QED
  BY <1>1, ScriptNumbers, ScriptNames

(* The player plays at one place only.                                     *)
LEMMA PlayPlace ==
    ASSUME TypeOK, at <= Len(Script), Script[at][1] = "play"
    PROVE  at = 7
<1>1. at \in 1..25
  BY ScriptLength DEF TypeOK
<1>2. at # 7 => Script[at][1] # "play"
  BY <1>1, ScriptNumbers, ScriptNames
<1> QED
  BY <1>2


(* They are these.                                                         *)
LEMMA ServersAre == "server_detect" \in Servers /\ "server_raw" \in Servers
  BY DEF Servers

(* There are two servers.                                                  *)
LEMMA CountOfServers == Cardinality(Servers) = 2
<1>1. IsFiniteSet({"server_detect"}) /\ Cardinality({"server_detect"}) = 1
  BY FS_Singleton
<1>2. "server_raw" \notin {"server_detect"} /\ Servers = {"server_detect"} \cup {"server_raw"}
  BY DEF Servers
<1> QED
  BY <1>1, <1>2, FS_AddElement

(* What the invariant says of the numbers.                                 *)
LEMMA Types ==
    ASSUME TypeOK, NEW s \in Servers
    PROVE  /\ at \in 1..26
           /\ m_pusherHandle[s] \in 0..MaxRegist /\ m_pusherHandle[s] \in Nat
           /\ created[s] \in 0..MaxRegist /\ created[s] \in Nat
           /\ live[s] \subseteq 1..MaxRegist
           /\ s_instanceCount \in 0..2
  BY ScriptLength, CountOfServers, BoundAssumption DEF TypeOK

(* Construct keeps the invariant.                                          *)
LEMMA ConstructPreserves ==
    ASSUME Inv, NEW s \in Servers, Construct(s)
    PROVE  Inv'
<1>1. TypeOK /\ Main("construct", s)
  BY DEF Inv, Construct
<1>2. at \in 1..25 /\ at' = at + 1 /\ async' = async /\ Script[at] = <<"construct", s>>
  BY <1>1, MainPlace
<1>3. (s = "server_detect" /\ at = 1) \/ (s = "server_raw" /\ at = 4)
  BY <1>2, ConstructPlace
<1>4. \A t \in Servers :
         /\ at' \in ActivePlaces(t) <=> (at \in ActivePlaces(t) \/ t = s)
         /\ at' \in MediaPlaces(t) <=> at \in MediaPlaces(t)
         /\ at' \in DestroyPlaces(t) <=> at \in DestroyPlaces(t)
  BY <1>2, <1>3 DEF ActivePlaces, MediaPlaces, DestroyPlaces, Servers
<1>5. ObjectsFollow'
  BY <1>1, <1>4 DEF Inv, TypeOK, ObjectsFollow, Construct, objectVars
<1>6. StaticsFollow'
  <2>1. s_instanceCount =
         (IF at \in ActivePlaces("server_detect") THEN 1 ELSE 0)
         + (IF at \in ActivePlaces("server_raw") THEN 1 ELSE 0)
    BY DEF Inv, StaticsFollow
  <2>2. s_instanceCount' = s_instanceCount + 1
    BY DEF Inv, ObjectsFollow, Construct
  <2>3. s_instanceCount' =
         (IF at' \in ActivePlaces("server_detect") THEN 1 ELSE 0)
         + (IF at' \in ActivePlaces("server_raw") THEN 1 ELSE 0)
    BY <1>2, <1>3, <2>1, <2>2 DEF ActivePlaces
  <2>4. at' \in ServerPlaces <=> at \in ServerPlaces
    BY <1>2, <1>3 DEF ServerPlaces
  <2> QED
    BY <2>3, <2>4 DEF Inv, StaticsFollow, Construct
<1>7. \A t \in Servers :
         /\ at' \in ReleasedPlaces(t) <=> at \in ReleasedPlaces(t)
         /\ at' \notin ForgetPlaces(t)
         /\ at \notin ForgetPlaces(t)
  BY <1>2, <1>3 DEF ReleasedPlaces, ForgetPlaces, Servers
<1>8. at # FedPlace
  BY <1>2, <1>3 DEF FedPlace, ReleasedPlaces, ForgetPlaces
<1>9. HandlesNameLast'
  BY <1>1, <1>7, Types DEF Inv, TypeOK, HandlesNameLast, Construct, objectVars, pusherVars
<1>10. CallbacksWhileFed'
  BY <1>1, <1>2, <1>7, <1>8, Types
     DEF Inv, TypeOK, HandlesNameLast, CallbacksWhileFed, Construct, objectVars, pusherVars
<1>11. s_instanceCount' \in 0..2
  BY <1>6 DEF StaticsFollow
<1>12. TypeOK'
  BY <1>1, <1>2, <1>11, Types, ScriptLength, CountOfServers, BoundAssumption
     DEF TypeOK, Construct, objectVars, staticVars, pusherVars
<1>13. CreatedBounded'
  BY DEF Inv, CreatedBounded, Construct, pusherVars
<1> QED
  BY <1>5, <1>6, <1>9, <1>10, <1>12, <1>13 DEF Inv

(* InitServer keeps the invariant.                                         *)
LEMMA InitServerPreserves ==
    ASSUME Inv, NEW s \in Servers, InitServer(s)
    PROVE  Inv'
<1>1. TypeOK /\ Main("initServer", s)
  BY DEF Inv, InitServer
<1>2. at \in 1..25 /\ at' = at + 1 /\ async' = async /\ Script[at] = <<"initServer", s>>
  BY <1>1, MainPlace
<1>3. (s = "server_detect" /\ at = 2) \/ (s = "server_raw" /\ at = 5)
  BY <1>2, InitServerPlace
<1>4. \A t \in Servers :
         /\ at' \in ActivePlaces(t) <=> at \in ActivePlaces(t)
         /\ at' \in MediaPlaces(t) <=> at \in MediaPlaces(t)
         /\ at' \in DestroyPlaces(t) <=> at \in DestroyPlaces(t)
  BY <1>2, <1>3 DEF ActivePlaces, MediaPlaces, DestroyPlaces, Servers
<1>5. ObjectsFollow'
  BY <1>1, <1>4 DEF Inv, TypeOK, ObjectsFollow, InitServer, objectVars
<1>6. StaticsFollow'
  <2>1. at' \in ServerPlaces
    BY <1>2, <1>3 DEF ServerPlaces
  <2> QED
    BY <1>4, <2>1, ServersAre
       DEF Inv, StaticsFollow, InitServer, staticVars
<1>7. \A t \in Servers :
         /\ at' \in ReleasedPlaces(t) <=> at \in ReleasedPlaces(t)
         /\ at' \notin ForgetPlaces(t)
         /\ at \notin ForgetPlaces(t)
  BY <1>2, <1>3 DEF ReleasedPlaces, ForgetPlaces, Servers
<1>8. at # FedPlace
  BY <1>2, <1>3 DEF FedPlace, ReleasedPlaces, ForgetPlaces
<1>9. HandlesNameLast'
  BY <1>1, <1>7, Types DEF Inv, TypeOK, HandlesNameLast, InitServer, objectVars, pusherVars
<1>10. CallbacksWhileFed'
  BY <1>1, <1>2, <1>7, <1>8, Types
     DEF Inv, TypeOK, HandlesNameLast, CallbacksWhileFed, InitServer, objectVars, pusherVars
<1>11. s_instanceCount' \in 0..2
  BY <1>6 DEF StaticsFollow
<1>12. TypeOK'
  BY <1>1, <1>2, <1>11, Types, ScriptLength, CountOfServers, BoundAssumption
     DEF TypeOK, InitServer, objectVars, staticVars, pusherVars
<1>13. CreatedBounded'
  BY DEF Inv, CreatedBounded, InitServer, pusherVars
<1> QED
  BY <1>5, <1>6, <1>9, <1>10, <1>12, <1>13 DEF Inv

(* InitZlmMedia keeps the invariant.                                       *)
LEMMA InitZlmMediaPreserves ==
    ASSUME Inv, NEW s \in Servers, InitZlmMedia(s)
    PROVE  Inv'
<1>1. TypeOK /\ Main("initMedia", s)
  BY DEF Inv, InitZlmMedia
<1>2. at \in 1..25 /\ at' = at + 1 /\ async' = async /\ Script[at] = <<"initMedia", s>>
  BY <1>1, MainPlace
<1>3. (s = "server_detect" /\ at = 3) \/ (s = "server_raw" /\ at = 6)
  BY <1>2, InitZlmMediaPlace
<1>4. \A t \in Servers :
         /\ at' \in ActivePlaces(t) <=> at \in ActivePlaces(t)
         /\ at' \in MediaPlaces(t) <=> (at \in MediaPlaces(t) \/ t = s)
         /\ at' \in DestroyPlaces(t) <=> at \in DestroyPlaces(t)
  BY <1>2, <1>3 DEF ActivePlaces, MediaPlaces, DestroyPlaces, Servers
<1>5. ObjectsFollow'
  BY <1>1, <1>4 DEF Inv, TypeOK, ObjectsFollow, InitZlmMedia, objectVars
<1>6. StaticsFollow'
  <2>1. at' \in ServerPlaces <=> at \in ServerPlaces
    BY <1>2, <1>3 DEF ServerPlaces
  <2> QED
    BY <1>4, <2>1, ServersAre
       DEF Inv, StaticsFollow, InitZlmMedia, staticVars
<1>7. \A t \in Servers :
         /\ at' \in ReleasedPlaces(t) <=> at \in ReleasedPlaces(t)
         /\ at' \notin ForgetPlaces(t)
         /\ at \notin ForgetPlaces(t)
  BY <1>2, <1>3 DEF ReleasedPlaces, ForgetPlaces, Servers
<1>8. at # FedPlace
  BY <1>2, <1>3 DEF FedPlace, ReleasedPlaces, ForgetPlaces
<1>9. HandlesNameLast'
  BY <1>1, <1>7, Types
     DEF Inv, TypeOK, HandlesNameLast, InitZlmMedia, objectVars, pusherVars
<1>10. CallbacksWhileFed'
  BY <1>1, <1>2, <1>7, <1>8, Types
     DEF Inv, TypeOK, HandlesNameLast, CallbacksWhileFed, InitZlmMedia, objectVars,
         pusherVars
<1>11. s_instanceCount' \in 0..2
  BY <1>6 DEF StaticsFollow
<1>12. TypeOK'
  BY <1>1, <1>2, <1>11, Types, ScriptLength, CountOfServers, BoundAssumption
     DEF TypeOK, InitZlmMedia, objectVars, staticVars, pusherVars
<1>13. CreatedBounded'
  BY DEF Inv, CreatedBounded, InitZlmMedia, pusherVars
<1> QED
  BY <1>5, <1>6, <1>9, <1>10, <1>12, <1>13 DEF Inv

(* ReleasePusher keeps the invariant.                                      *)
LEMMA ReleasePusherPreserves ==
    ASSUME Inv, NEW s \in Servers, ReleasePusher(s)
    PROVE  Inv'
<1>1. TypeOK /\ Main("pusher", s)
  BY DEF Inv, ReleasePusher
<1>2. at \in 1..25 /\ at' = at + 1 /\ async' = async /\ Script[at] = <<"pusher", s>>
  BY <1>1, MainPlace
<1>3. (s = "server_detect" /\ at = 8) \/ (s = "server_detect" /\ at = 17)
        \/ (s = "server_raw" /\ at = 12) \/ (s = "server_raw" /\ at = 22)
  BY <1>2, ReleasePusherPlace
<1>4. \A t \in Servers :
         /\ at' \in ActivePlaces(t) <=> at \in ActivePlaces(t)
         /\ at' \in MediaPlaces(t) <=> at \in MediaPlaces(t)
         /\ at' \in DestroyPlaces(t) <=> at \in DestroyPlaces(t)
  BY <1>2, <1>3 DEF ActivePlaces, MediaPlaces, DestroyPlaces, Servers
<1>5. ObjectsFollow'
  BY <1>1, <1>4 DEF Inv, TypeOK, ObjectsFollow, ReleasePusher, objectVars
<1>6. StaticsFollow'
  <2>1. at' \in ServerPlaces <=> at \in ServerPlaces
    BY <1>2, <1>3 DEF ServerPlaces
  <2> QED
    BY <1>4, <2>1, ServersAre
       DEF Inv, StaticsFollow, ReleasePusher, staticVars
<1>7. \A t \in Servers :
         /\ at' \in ReleasedPlaces(t) <=> (at \in ReleasedPlaces(t) \/ t = s)
         /\ at' \in ForgetPlaces(t) <=> t = s
         /\ at \notin ForgetPlaces(t)
  BY <1>2, <1>3 DEF ReleasedPlaces, ForgetPlaces, Servers
<1>8. at # FedPlace
  BY <1>2, <1>3 DEF FedPlace, ReleasedPlaces, ForgetPlaces
<1>9. HandlesNameLast'
  BY <1>1, <1>7, Types
     DEF Inv, TypeOK, HandlesNameLast, ReleasePusher, objectVars, pusherVars
<1>10. CallbacksWhileFed'
  BY <1>1, <1>2, <1>7, <1>8, Types
     DEF Inv, TypeOK, HandlesNameLast, CallbacksWhileFed, ReleasePusher, objectVars,
         pusherVars
<1>11. s_instanceCount' \in 0..2
  BY <1>6 DEF StaticsFollow
<1>12. TypeOK'
  BY <1>1, <1>2, <1>11, Types, ScriptLength, CountOfServers, BoundAssumption
     DEF TypeOK, ReleasePusher, objectVars, staticVars, pusherVars
<1>13. CreatedBounded'
  BY DEF Inv, CreatedBounded, ReleasePusher, pusherVars
<1> QED
  BY <1>5, <1>6, <1>9, <1>10, <1>12, <1>13 DEF Inv

(* ForgetPusher keeps the invariant.                                       *)
LEMMA ForgetPusherPreserves ==
    ASSUME Inv, NEW s \in Servers, ForgetPusher(s)
    PROVE  Inv'
<1>1. TypeOK /\ Main("forget", s)
  BY DEF Inv, ForgetPusher
<1>2. at \in 1..25 /\ at' = at + 1 /\ async' = async /\ Script[at] = <<"forget", s>>
  BY <1>1, MainPlace
<1>3. (s = "server_detect" /\ at = 9) \/ (s = "server_detect" /\ at = 18)
        \/ (s = "server_raw" /\ at = 13) \/ (s = "server_raw" /\ at = 23)
  BY <1>2, ForgetPusherPlace
<1>4. \A t \in Servers :
         /\ at' \in ActivePlaces(t) <=> at \in ActivePlaces(t)
         /\ at' \in MediaPlaces(t) <=> at \in MediaPlaces(t)
         /\ at' \in DestroyPlaces(t) <=> at \in DestroyPlaces(t)
  BY <1>2, <1>3 DEF ActivePlaces, MediaPlaces, DestroyPlaces, Servers
<1>5. ObjectsFollow'
  BY <1>1, <1>4 DEF Inv, TypeOK, ObjectsFollow, ForgetPusher, objectVars
<1>6. StaticsFollow'
  <2>1. at' \in ServerPlaces <=> at \in ServerPlaces
    BY <1>2, <1>3 DEF ServerPlaces
  <2> QED
    BY <1>4, <2>1, ServersAre
       DEF Inv, StaticsFollow, ForgetPusher, staticVars
<1>7. \A t \in Servers :
         /\ at' \in ReleasedPlaces(t) <=> at \in ReleasedPlaces(t)
         /\ at' \notin ForgetPlaces(t)
         /\ at \in ForgetPlaces(t) => t = s
  BY <1>2, <1>3 DEF ReleasedPlaces, ForgetPlaces, Servers
<1>8. at # FedPlace /\ at \in ReleasedPlaces(s)
  BY <1>2, <1>3 DEF FedPlace, ReleasedPlaces, ForgetPlaces
<1>9. HandlesNameLast'
  BY <1>1, <1>7, Types
     DEF Inv, TypeOK, HandlesNameLast, ForgetPusher, objectVars, pusherVars
<1>10. CallbacksWhileFed'
  BY <1>1, <1>2, <1>7, <1>8, Types
     DEF Inv, TypeOK, HandlesNameLast, CallbacksWhileFed, ForgetPusher, objectVars,
         pusherVars
<1>11. s_instanceCount' \in 0..2
  BY <1>6 DEF StaticsFollow
<1>12. TypeOK'
  BY <1>1, <1>2, <1>11, Types, ScriptLength, CountOfServers, BoundAssumption
     DEF TypeOK, ForgetPusher, objectVars, staticVars, pusherVars
<1>13. CreatedBounded'
  BY DEF Inv, CreatedBounded, ForgetPusher, pusherVars
<1> QED
  BY <1>5, <1>6, <1>9, <1>10, <1>12, <1>13 DEF Inv

(* ReleaseMedia keeps the invariant.                                       *)
LEMMA ReleaseMediaPreserves ==
    ASSUME Inv, NEW s \in Servers, ReleaseMedia(s)
    PROVE  Inv'
<1>1. TypeOK /\ Main("media", s)
  BY DEF Inv, ReleaseMedia
<1>2. at \in 1..25 /\ at' = at + 1 /\ async' = async /\ Script[at] = <<"media", s>>
  BY <1>1, MainPlace
<1>3. (s = "server_detect" /\ at = 10) \/ (s = "server_detect" /\ at = 19)
        \/ (s = "server_raw" /\ at = 14) \/ (s = "server_raw" /\ at = 24)
  BY <1>2, ReleaseMediaPlace
<1>4. \A t \in Servers :
         /\ at' \in ActivePlaces(t) <=> at \in ActivePlaces(t)
         /\ at' \in MediaPlaces(t) <=> (at \in MediaPlaces(t) /\ t # s)
         /\ at' \in DestroyPlaces(t) <=> at \in DestroyPlaces(t)
  BY <1>2, <1>3 DEF ActivePlaces, MediaPlaces, DestroyPlaces, Servers
<1>5. ObjectsFollow'
  BY <1>1, <1>4 DEF Inv, TypeOK, ObjectsFollow, ReleaseMedia, objectVars
<1>6. StaticsFollow'
  <2>1. at' \in ServerPlaces <=> at \in ServerPlaces
    BY <1>2, <1>3 DEF ServerPlaces
  <2> QED
    BY <1>4, <2>1, ServersAre
       DEF Inv, StaticsFollow, ReleaseMedia, staticVars
<1>7. \A t \in Servers :
         /\ at' \in ReleasedPlaces(t) <=> at \in ReleasedPlaces(t)
         /\ at' \notin ForgetPlaces(t)
         /\ at \notin ForgetPlaces(t)
  BY <1>2, <1>3 DEF ReleasedPlaces, ForgetPlaces, Servers
<1>8. at # FedPlace
  BY <1>2, <1>3 DEF FedPlace, ReleasedPlaces, ForgetPlaces
<1>9. HandlesNameLast'
  BY <1>1, <1>7, Types
     DEF Inv, TypeOK, HandlesNameLast, ReleaseMedia, objectVars, pusherVars
<1>10. CallbacksWhileFed'
  BY <1>1, <1>2, <1>7, <1>8, Types
     DEF Inv, TypeOK, HandlesNameLast, CallbacksWhileFed, ReleaseMedia, objectVars,
         pusherVars
<1>11. s_instanceCount' \in 0..2
  BY <1>6 DEF StaticsFollow
<1>12. TypeOK'
  BY <1>1, <1>2, <1>11, Types, ScriptLength, CountOfServers, BoundAssumption
     DEF TypeOK, ReleaseMedia, objectVars, staticVars, pusherVars
<1>13. CreatedBounded'
  BY DEF Inv, CreatedBounded, ReleaseMedia, pusherVars
<1> QED
  BY <1>5, <1>6, <1>9, <1>10, <1>12, <1>13 DEF Inv

(* CountDown keeps the invariant.                                          *)
LEMMA CountDownPreserves ==
    ASSUME Inv, NEW s \in Servers, CountDown(s)
    PROVE  Inv'
<1>1. TypeOK /\ Main("count", s)
  BY DEF Inv, CountDown
<1>2. at \in 1..25 /\ at' = at + 1 /\ async' = async /\ Script[at] = <<"count", s>>
  BY <1>1, MainPlace
<1>3. (s = "server_detect" /\ at = 11) \/ (s = "server_detect" /\ at = 20)
        \/ (s = "server_raw" /\ at = 15) \/ (s = "server_raw" /\ at = 25)
  BY <1>2, CountDownPlace
<1>4. \A t \in Servers :
         /\ at' \in ActivePlaces(t) <=> (at \in ActivePlaces(t) /\ t # s)
         /\ at' \in MediaPlaces(t) <=> at \in MediaPlaces(t)
         /\ at' \in DestroyPlaces(t) <=> at \in DestroyPlaces(t)
  BY <1>2, <1>3 DEF ActivePlaces, MediaPlaces, DestroyPlaces, Servers
<1>5. ObjectsFollow'
  BY <1>1, <1>4 DEF Inv, TypeOK, ObjectsFollow, CountDown, objectVars
<1>6. StaticsFollow'
  <2>1. s_instanceCount =
         (IF at \in ActivePlaces("server_detect") THEN 1 ELSE 0)
         + (IF at \in ActivePlaces("server_raw") THEN 1 ELSE 0)
    BY DEF Inv, StaticsFollow
  <2>2. s_instanceCount' = s_instanceCount - (IF at \in ActivePlaces(s) THEN 1 ELSE 0)
    BY DEF Inv, ObjectsFollow, CountDown
  <2>3. s_instanceCount' =
         (IF at' \in ActivePlaces("server_detect") THEN 1 ELSE 0)
         + (IF at' \in ActivePlaces("server_raw") THEN 1 ELSE 0)
    BY <1>2, <1>3, <2>1, <2>2 DEF ActivePlaces
  <2>4. s_instanceCount' = 0 /\ at \in ActivePlaces(s) <=> at = 15
    BY <1>2, <1>3, <2>3 DEF ActivePlaces
  <2>5. at' \in ServerPlaces <=> (at \in ServerPlaces /\ at # 15)
    BY <1>2, <1>3 DEF ServerPlaces
  <2>6. m_isActive[s] <=> at \in ActivePlaces(s)
    BY DEF Inv, ObjectsFollow
  <2> QED
    BY <2>3, <2>4, <2>5, <2>6 DEF Inv, StaticsFollow, CountDown
<1>7. \A t \in Servers :
         /\ at' \in ReleasedPlaces(t) <=> at \in ReleasedPlaces(t)
         /\ at' \notin ForgetPlaces(t)
         /\ at \notin ForgetPlaces(t)
  BY <1>2, <1>3 DEF ReleasedPlaces, ForgetPlaces, Servers
<1>8. at # FedPlace
  BY <1>2, <1>3 DEF FedPlace, ReleasedPlaces, ForgetPlaces
<1>9. HandlesNameLast'
  BY <1>1, <1>7, Types DEF Inv, TypeOK, HandlesNameLast, CountDown, objectVars, pusherVars
<1>10. CallbacksWhileFed'
  BY <1>1, <1>2, <1>7, <1>8, Types
     DEF Inv, TypeOK, HandlesNameLast, CallbacksWhileFed, CountDown, objectVars, pusherVars
<1>11. s_instanceCount' \in 0..2
  BY <1>6 DEF StaticsFollow
<1>12. TypeOK'
  <2>1. at' \in 1..(Len(Script) + 1) /\ s_instanceCount' \in 0..Cardinality(Servers)
    BY <1>2, <1>11, ScriptLength, CountOfServers
  <2>2. /\ s_serverInitialized' \in BOOLEAN /\ running' \in {"none", "up", "failed"}
        /\ m_isActive' = [m_isActive EXCEPT ![s] = FALSE]
        /\ UNCHANGED <<m_mediaHandle, m_pusherHandle, m_isDestroying, cb, pusherVars>>
    BY <1>1 DEF CountDown, TypeOK
  <2> QED
    BY <1>1, <1>2, <2>1, <2>2 DEF TypeOK, pusherVars
<1>13. CreatedBounded'
  BY DEF Inv, CreatedBounded, CountDown, pusherVars
<1> QED
  BY <1>5, <1>6, <1>9, <1>10, <1>12, <1>13 DEF Inv

(* Destroy keeps the invariant.                                            *)
LEMMA DestroyPreserves ==
    ASSUME Inv, NEW s \in Servers, Destroy(s)
    PROVE  Inv'
<1>1. TypeOK /\ Main("destroy", s)
  BY DEF Inv, Destroy
<1>2. at \in 1..25 /\ at' = at + 1 /\ async' = async /\ Script[at] = <<"destroy", s>>
  BY <1>1, MainPlace
<1>3. (s = "server_detect" /\ at = 16) \/ (s = "server_raw" /\ at = 21)
  BY <1>2, DestroyPlace
<1>4. \A t \in Servers :
         /\ at' \in ActivePlaces(t) <=> at \in ActivePlaces(t)
         /\ at' \in MediaPlaces(t) <=> at \in MediaPlaces(t)
         /\ at' \in DestroyPlaces(t) <=> (at \in DestroyPlaces(t) \/ t = s)
  BY <1>2, <1>3 DEF ActivePlaces, MediaPlaces, DestroyPlaces, Servers
<1>5. ObjectsFollow'
  BY <1>1, <1>4 DEF Inv, TypeOK, ObjectsFollow, Destroy, objectVars
<1>6. StaticsFollow'
  <2>1. at' \in ServerPlaces <=> at \in ServerPlaces
    BY <1>2, <1>3 DEF ServerPlaces
  <2> QED
    BY <1>4, <2>1, ServersAre
       DEF Inv, StaticsFollow, Destroy, staticVars
<1>7. \A t \in Servers :
         /\ at' \in ReleasedPlaces(t) <=> at \in ReleasedPlaces(t)
         /\ at' \notin ForgetPlaces(t)
         /\ at \notin ForgetPlaces(t)
  BY <1>2, <1>3 DEF ReleasedPlaces, ForgetPlaces, Servers
<1>8. at # FedPlace
  BY <1>2, <1>3 DEF FedPlace, ReleasedPlaces, ForgetPlaces
<1>9. HandlesNameLast'
  BY <1>1, <1>7, Types DEF Inv, TypeOK, HandlesNameLast, Destroy, objectVars, pusherVars
<1>10. CallbacksWhileFed'
  BY <1>1, <1>2, <1>7, <1>8, Types
     DEF Inv, TypeOK, HandlesNameLast, CallbacksWhileFed, Destroy, objectVars, pusherVars
<1>11. s_instanceCount' \in 0..2
  BY <1>6 DEF StaticsFollow
<1>12. TypeOK'
  BY <1>1, <1>2, <1>11, Types, ScriptLength, CountOfServers, BoundAssumption
     DEF TypeOK, Destroy, objectVars, staticVars, pusherVars
<1>13. CreatedBounded'
  BY DEF Inv, CreatedBounded, Destroy, pusherVars
<1> QED
  BY <1>5, <1>6, <1>9, <1>10, <1>12, <1>13 DEF Inv

(* EndPlay keeps the invariant.                                            *)
LEMMA EndPlayPreserves ==
    ASSUME Inv, EndPlay
    PROVE  Inv'
<1>1. TypeOK /\ Main("play", "server_raw")
  BY DEF Inv, EndPlay
<1>2. at \in 1..25 /\ at' = at + 1 /\ async' = async /\ Script[at] = <<"play", "server_raw">>
  BY <1>1, MainPlace
<1>3. at = 7
  BY <1>1, PlayPlace, ScriptLength, <1>2
<1>4. /\ UNCHANGED <<objectVars, staticVars, cb, pusherVars>>
      /\ (~ async => \A s \in Servers : cb[s] = "none")
  BY DEF EndPlay
<1>5. ObjectsFollow'
  BY <1>2, <1>3, <1>4
     DEF Inv, ObjectsFollow, objectVars, ActivePlaces, MediaPlaces, DestroyPlaces
<1>6. StaticsFollow'
  BY <1>2, <1>3, <1>4 DEF Inv, StaticsFollow, staticVars, ActivePlaces, ServerPlaces
<1>7. HandlesNameLast'
  BY <1>2, <1>3, <1>4 DEF Inv, HandlesNameLast, objectVars, pusherVars, ForgetPlaces
<1>8. CallbacksWhileFed'
  BY <1>2, <1>3, <1>4
     DEF Inv, CallbacksWhileFed, objectVars, pusherVars, ReleasedPlaces, FedPlace
<1>9. TypeOK'
  BY <1>1, <1>2, <1>4, ScriptLength DEF TypeOK, objectVars, staticVars, pusherVars
<1>10. CreatedBounded'
  BY <1>4 DEF Inv, CreatedBounded, pusherVars
<1> QED
  BY <1>5, <1>6, <1>7, <1>8, <1>9, <1>10 DEF Inv

(* RegistCallback keeps the invariant.                                     *)
LEMMA RegistCallbackPreserves ==
    ASSUME Inv, NEW s \in Servers, RegistCallback(s)
    PROVE  Inv'
<1>1. TypeOK /\ UNCHANGED <<at, async, m_mediaHandle, m_isActive, m_isDestroying, staticVars>>
  BY DEF Inv, RegistCallback, objectVars
<1>2. ObjectsFollow' /\ StaticsFollow'
  BY <1>1 DEF Inv, ObjectsFollow, StaticsFollow, staticVars
<1>3. ~ async => at = FedPlace
  <2>1. at <= Len(Script) \/ at = 26
    BY <1>1, ScriptLength DEF TypeOK
  <2>2. m_mediaHandle[s] => at # 26
    BY DEF Inv, ObjectsFollow, MediaPlaces
  <2> QED
    BY <1>1, <2>1, <2>2, PlayPlace DEF RegistCallback, FedPlace
<1>4. /\ UNCHANGED <<objectVars, pusherVars>>
      /\ cb' \in [Servers -> {"none", "init", "result", "start", "publish"}]
  BY DEF Inv, TypeOK, RegistCallback
<1>5. HandlesNameLast'
  BY <1>1, <1>4 DEF Inv, HandlesNameLast, objectVars, pusherVars
<1>6. CallbacksWhileFed'
  BY <1>1, <1>3, <1>4
     DEF Inv, TypeOK, HandlesNameLast, CallbacksWhileFed, RegistCallback, objectVars,
         pusherVars, ForgetPlaces, ReleasedPlaces, FedPlace
<1>7. TypeOK'
  BY <1>1, <1>4 DEF TypeOK, objectVars, staticVars, pusherVars
<1>8. CreatedBounded'
  BY DEF Inv, TypeOK, CreatedBounded, RegistCallback, pusherVars
<1> QED
  BY <1>2, <1>5, <1>6, <1>7, <1>8 DEF Inv

(* ZlmPusherInit keeps the invariant.                                      *)
LEMMA ZlmPusherInitPreserves ==
    ASSUME Inv, NEW s \in Servers, ZlmPusherInit(s)
    PROVE  Inv'
<1>1. TypeOK /\ UNCHANGED <<at, async, m_mediaHandle, m_isActive, m_isDestroying, staticVars>>
  BY DEF Inv, ZlmPusherInit, objectVars
<1>2. ObjectsFollow' /\ StaticsFollow'
  BY <1>1 DEF Inv, ObjectsFollow, StaticsFollow, staticVars
<1>3. CASE m_isDestroying[s]
  <2>1. /\ UNCHANGED <<m_pusherHandle, pusherVars>>
        /\ cb' = [cb EXCEPT ![s] = "start"] /\ cb[s] = "init"
    BY <1>3 DEF ZlmPusherInit
  <2>2. HandlesNameLast'
    BY <1>1, <2>1 DEF Inv, HandlesNameLast, pusherVars
  <2>3. CallbacksWhileFed'
    BY <1>1, <2>1 DEF Inv, TypeOK, CallbacksWhileFed, pusherVars
  <2>4. TypeOK'
    BY <1>1, <2>1 DEF TypeOK, staticVars, pusherVars
  <2>5. CreatedBounded'
    BY <1>1, <2>1 DEF Inv, TypeOK, CreatedBounded, pusherVars
  <2> QED
    BY <1>2, <2>2, <2>3, <2>4, <2>5 DEF Inv
<1>4. CASE ~ m_isDestroying[s]
  <2> DEFINE n == created[s] + 1
  <2>1. /\ created' = [created EXCEPT ![s] = n] /\ live' = [live EXCEPT ![s] = @ \cup {n}]
        /\ m_pusherHandle' = [m_pusherHandle EXCEPT ![s] = n]
        /\ cb' = [cb EXCEPT ![s] = "result"] /\ cb[s] = "init"
    BY <1>1, <1>4 DEF ZlmPusherInit, TypeOK
  <2>2. created[s] < MaxRegist
    BY DEF Inv, CreatedBounded, ZlmPusherInit
  <2>3. n \in 1..MaxRegist /\ created[s] \in Nat
    BY <1>1, <2>2, Types, BoundAssumption
  <2>4. HandlesNameLast'
    BY <1>1, <2>1, <2>3 DEF Inv, TypeOK, HandlesNameLast, ForgetPlaces
  <2>5. CallbacksWhileFed'
    BY <1>1, <2>1, <2>3
       DEF Inv, TypeOK, CallbacksWhileFed, ReleasedPlaces, FedPlace, Servers
  <2>6. TypeOK'
    BY <1>1, <2>1, <2>3 DEF TypeOK, staticVars
  <2>7. CreatedBounded'
    BY <1>1, <2>1 DEF Inv, TypeOK, CreatedBounded
  <2> QED
    BY <1>2, <2>4, <2>5, <2>6, <2>7 DEF Inv
<1> QED
  BY <1>3, <1>4

(* SetOnResult keeps the invariant.                                        *)
LEMMA SetOnResultPreserves ==
    ASSUME Inv, NEW s \in Servers, SetOnResult(s)
    PROVE  Inv'
<1>1. TypeOK /\ UNCHANGED <<at, async, m_mediaHandle, m_isActive, m_isDestroying, staticVars>>
  BY DEF Inv, SetOnResult, objectVars
<1>2. ObjectsFollow' /\ StaticsFollow'
  BY <1>1 DEF Inv, ObjectsFollow, StaticsFollow, staticVars
<1>3. cb[s] # "none"
  BY DEF SetOnResult
<1>4. /\ UNCHANGED <<objectVars, pusherVars>>
      /\ cb' \in [Servers -> {"none", "init", "result", "start", "publish"}]
  BY DEF Inv, TypeOK, SetOnResult
<1>5. HandlesNameLast'
  BY <1>1, <1>4 DEF Inv, HandlesNameLast, objectVars, pusherVars
<1>6. CallbacksWhileFed'
  BY <1>1, <1>3, <1>4
     DEF Inv, TypeOK, HandlesNameLast, CallbacksWhileFed, SetOnResult, objectVars,
         pusherVars, ForgetPlaces, ReleasedPlaces, FedPlace
<1>7. TypeOK'
  BY <1>1, <1>4 DEF TypeOK, objectVars, staticVars, pusherVars
<1>8. CreatedBounded'
  BY DEF Inv, TypeOK, CreatedBounded, SetOnResult, pusherVars
<1> QED
  BY <1>2, <1>5, <1>6, <1>7, <1>8 DEF Inv

(* ZlmPusherStart keeps the invariant.                                     *)
LEMMA ZlmPusherStartPreserves ==
    ASSUME Inv, NEW s \in Servers, ZlmPusherStart(s)
    PROVE  Inv'
<1>1. TypeOK /\ UNCHANGED <<at, async, m_mediaHandle, m_isActive, m_isDestroying, staticVars>>
  BY DEF Inv, ZlmPusherStart, objectVars
<1>2. ObjectsFollow' /\ StaticsFollow'
  BY <1>1 DEF Inv, ObjectsFollow, StaticsFollow, staticVars
<1>3. cb[s] # "none"
  BY DEF ZlmPusherStart
<1>4. /\ UNCHANGED <<objectVars, pusherVars>>
      /\ cb' \in [Servers -> {"none", "init", "result", "start", "publish"}]
  BY DEF Inv, TypeOK, ZlmPusherStart
<1>5. HandlesNameLast'
  BY <1>1, <1>4 DEF Inv, HandlesNameLast, objectVars, pusherVars
<1>6. CallbacksWhileFed'
  BY <1>1, <1>3, <1>4
     DEF Inv, TypeOK, HandlesNameLast, CallbacksWhileFed, ZlmPusherStart, objectVars,
         pusherVars, ForgetPlaces, ReleasedPlaces, FedPlace
<1>7. TypeOK'
  BY <1>1, <1>4 DEF TypeOK, objectVars, staticVars, pusherVars
<1>8. CreatedBounded'
  BY DEF Inv, TypeOK, CreatedBounded, ZlmPusherStart, pusherVars
<1> QED
  BY <1>2, <1>5, <1>6, <1>7, <1>8 DEF Inv

(* Publish keeps the invariant.                                            *)
LEMMA PublishPreserves ==
    ASSUME Inv, NEW s \in Servers, Publish(s)
    PROVE  Inv'
<1>1. TypeOK /\ UNCHANGED <<at, async, m_mediaHandle, m_isActive, m_isDestroying, staticVars>>
  BY DEF Inv, Publish, objectVars
<1>2. ObjectsFollow' /\ StaticsFollow'
  BY <1>1 DEF Inv, ObjectsFollow, StaticsFollow, staticVars
<1>3. cb[s] # "none"
  BY DEF Publish
<1>4. /\ UNCHANGED <<objectVars, pusherVars>>
      /\ cb' \in [Servers -> {"none", "init", "result", "start", "publish"}]
  BY DEF Inv, TypeOK, Publish
<1>5. HandlesNameLast'
  BY <1>1, <1>4 DEF Inv, HandlesNameLast, objectVars, pusherVars
<1>6. CallbacksWhileFed'
  BY <1>1, <1>3, <1>4
     DEF Inv, TypeOK, HandlesNameLast, CallbacksWhileFed, Publish, objectVars,
         pusherVars, ForgetPlaces, ReleasedPlaces, FedPlace
<1>7. TypeOK'
  BY <1>1, <1>4 DEF TypeOK, objectVars, staticVars, pusherVars
<1>8. CreatedBounded'
  BY DEF Inv, TypeOK, CreatedBounded, Publish, pusherVars
<1> QED
  BY <1>2, <1>5, <1>6, <1>7, <1>8 DEF Inv

(* A step that changes nothing keeps the invariant ...                     *)
LEMMA StutterPreserves ==
    ASSUME Inv, UNCHANGED vars
    PROVE  Inv'
<1>1. TypeOK' /\ ObjectsFollow'
  BY DEF Inv, vars, objectVars, staticVars, pusherVars, TypeOK, ObjectsFollow
<1>2. StaticsFollow' /\ HandlesNameLast'
  BY DEF Inv, vars, objectVars, staticVars, pusherVars, StaticsFollow, HandlesNameLast
<1>3. CallbacksWhileFed' /\ CreatedBounded'
  BY DEF Inv, vars, objectVars, pusherVars, CallbacksWhileFed, CreatedBounded
<1> QED
  BY <1>1, <1>2, <1>3 DEF Inv

(* ... and it holds at the start ...                                       *)
LEMMA InitInv == Init => Inv
<1> SUFFICES ASSUME Init PROVE Inv
  OBVIOUS
<1>1. TypeOK
  <2>1. at \in 1..(Len(Script) + 1) /\ s_instanceCount \in 0..Cardinality(Servers)
    BY ScriptLength, CountOfServers DEF Init
  <2>2. /\ m_pusherHandle \in [Servers -> 0..MaxRegist]
        /\ created \in [Servers -> 0..MaxRegist]
        /\ live \in [Servers -> SUBSET (1..MaxRegist)]
    BY BoundAssumption DEF Init
  <2> QED
    BY <2>1, <2>2 DEF Init, TypeOK
<1>2. ObjectsFollow /\ StaticsFollow
  BY
     DEF Init, ObjectsFollow, StaticsFollow, ActivePlaces, MediaPlaces, DestroyPlaces,
         ServerPlaces
<1>3. HandlesNameLast
  BY DEF Init, HandlesNameLast
<1>4. CallbacksWhileFed /\ CreatedBounded
  BY DEF Init, CallbacksWhileFed, CreatedBounded, ReleasedPlaces, Servers
<1> QED
  BY <1>1, <1>2, <1>3, <1>4 DEF Inv

(* ... so it always holds: main's place decides what the objects and the   *)
(* statics are, and handles name the last pusher, whenever callbacks come  *)
(* (rtsp_server.cpp:10-160).                                               *)
THEOREM Invariance == Spec => []Inv
<1>1. Inv /\ [Next]_vars => Inv'
  <2> SUFFICES ASSUME Inv, [Next]_vars PROVE Inv'
    OBVIOUS
  <2>1. CASE EndPlay
    BY <2>1, EndPlayPreserves
  <2>2. ASSUME NEW s \in Servers,
               \/ Construct(s) \/ InitServer(s) \/ InitZlmMedia(s) \/ ReleasePusher(s)
               \/ ForgetPusher(s) \/ ReleaseMedia(s) \/ CountDown(s) \/ Destroy(s)
        PROVE  Inv'
    BY <2>2, ConstructPreserves, InitServerPreserves, InitZlmMediaPreserves,
       ReleasePusherPreserves, ForgetPusherPreserves, ReleaseMediaPreserves,
       CountDownPreserves, DestroyPreserves
  <2>3. ASSUME NEW s \in Servers,
               \/ RegistCallback(s) \/ ZlmPusherInit(s) \/ SetOnResult(s)
               \/ ZlmPusherStart(s) \/ Publish(s)
        PROVE  Inv'
    BY <2>3, RegistCallbackPreserves, ZlmPusherInitPreserves, SetOnResultPreserves,
       ZlmPusherStartPreserves, PublishPreserves
  <2>4. CASE UNCHANGED vars
    BY <2>4, StutterPreserves
  <2> QED
    BY <2>1, <2>2, <2>3, <2>4 DEF Next
<1> QED
  BY InitInv, <1>1, PTL DEF Spec

(* Every variable has its type; in particular the count of objects never   *)
(* leaves 0..2 (rtsp_server.cpp:14, 46).                                   *)
THEOREM TypeCorrect == Spec => []TypeOK
<1>1. Inv => TypeOK
  BY DEF Inv
<1> QED
  BY Invariance, <1>1, PTL

(* The shared media server outlives every stream, whatever the number of   *)
(* registrations (rtsp_server.cpp:45-63).                                  *)
THEOREM StreamsHaveServer == Spec => []MediaNeedsServer
<1>1. Inv => MediaNeedsServer
  BY
     DEF Inv, ObjectsFollow, StaticsFollow, MediaNeedsServer, MediaPlaces, ServerPlaces,
         Servers
<1> QED
  BY Invariance, <1>1, PTL

(* The count is that of the objects not cleaned up, through both cleanups  *)
(* of each (rtsp_server.cpp:45-64).                                        *)
THEOREM ObjectsAreCounted == Spec => []CountMatches
<1>1. Inv => CountMatches
  <2> SUFFICES ASSUME Inv PROVE CountMatches
    OBVIOUS
  <2> DEFINE active == {s \in Servers : m_isActive[s]}
             d == at \in ActivePlaces("server_detect")
             r == at \in ActivePlaces("server_raw")
  <2>1. /\ "server_detect" \in active <=> d
        /\ "server_raw" \in active <=> r
        /\ active \subseteq {"server_detect", "server_raw"}
    BY DEF Inv, ObjectsFollow, Servers
  <2>2. /\ d /\ r => s_instanceCount = 2
        /\ ~ d /\ ~ r => s_instanceCount = 0
        /\ d # r => s_instanceCount = 1
    BY DEF Inv, StaticsFollow
  <2> HIDE DEF active, d, r
  <2>3. CASE d /\ r
    <3>1. active = Servers
      BY <2>1, <2>3 DEF Servers
    <3> QED
      BY <2>2, <2>3, <3>1, CountOfServers DEF CountMatches, active
  <2>4. CASE d /\ ~ r
    <3>1. active = {"server_detect"}
      BY <2>1, <2>4
    <3> QED
      BY <2>2, <2>4, <3>1, FS_Singleton DEF CountMatches, active
  <2>5. CASE ~ d /\ r
    <3>1. active = {"server_raw"}
      BY <2>1, <2>5
    <3> QED
      BY <2>2, <2>5, <3>1, FS_Singleton DEF CountMatches, active
  <2>6. CASE ~ d /\ ~ r
    <3>1. active = {}
      BY <2>1, <2>6
    <3> QED
      BY <2>2, <2>6, <3>1, FS_EmptySet DEF CountMatches, active
  <2> QED
    BY <2>3, <2>4, <2>5, <2>6
<1> QED
  BY Invariance, <1>1, PTL

(* These are the places between the release of a pusher and the clearing   *)
(* of its handle.                                                          *)
LEMMA ForgettingPlaces ==
    ASSUME TypeOK, NEW s \in Servers, at \in ForgetPlaces(s)
    PROVE  Forgetting(s)
  BY ScriptLength, ScriptValues DEF Forgetting, ForgetPlaces, Servers

(* No pusher is released twice, however callbacks interleave with the two  *)
(* cleanups (rtsp_server.cpp:31-34).                                       *)
THEOREM PushersReleasedOnce == Spec => []ReleasedOnce
<1>1. Inv => ReleasedOnce
  BY ForgettingPlaces DEF Inv, HandlesNameLast, ReleasedOnce
<1> QED
  BY Invariance, <1>1, PTL

(* With callbacks on the feeding threads no callback uses a pusher that    *)
(* was released (rtsp_server.cpp:139-145).                                 *)
THEOREM PushersUsedAlive == Spec => []PusherUsedAlive
<1>1. Inv => PusherUsedAlive
  <2> SUFFICES ASSUME Inv, ~ async, NEW s \in Servers, cb[s] \in {"result", "publish"}
               PROVE  m_pusherHandle[s] \in live[s]
    BY DEF PusherUsedAlive
  <2>1. at = FedPlace /\ m_pusherHandle[s] # 0
    BY DEF Inv, CallbacksWhileFed
  <2>2. at \notin ForgetPlaces(s)
    BY <2>1 DEF FedPlace, ForgetPlaces
  <2> QED
    BY <2>1, <2>2 DEF Inv, HandlesNameLast
<1> QED
  BY Invariance, <1>1, PTL

(* Once cleanup has run for a server, its pusher was released.             *)
LEMMA StoppedPlaces ==
    ASSUME TypeOK, NEW s \in Servers, Stopped(s)
    PROVE  at \in ReleasedPlaces(s)
<1>1. PICK k \in 1..(at - 1) : Script[k] = <<"count", s>>
  BY DEF Stopped
<1>2. k \in 1..25 /\ at \in 1..26 /\ k < at
  BY ScriptLength DEF TypeOK
<1>3. \/ s = "server_detect" /\ (k = 11 \/ k = 20)
      \/ s = "server_raw" /\ (k = 15 \/ k = 25)
  BY <1>1, <1>2, ScriptNumbers, ScriptValues
<1> QED
  BY <1>2, <1>3 DEF ReleasedPlaces

(* With callbacks on the feeding threads cleanup leaves only pushers whose *)
(* handle a later registration took (rtsp_server.cpp:137).                 *)
THEOREM OnlyReplacedAreLeft == Spec => []LeftOnlyIfReplaced
<1>1. Inv => LeftOnlyIfReplaced
  <2> SUFFICES ASSUME Inv, ~ async, NEW s \in Servers, Stopped(s), NEW p \in live[s]
               PROVE  p < created[s]
    BY DEF LeftOnlyIfReplaced
  <2>1. at \in ReleasedPlaces(s)
    BY StoppedPlaces DEF Inv
  <2>2. created[s] \notin live[s] /\ live[s] \subseteq 1..created[s]
    BY <2>1 DEF Inv, CallbacksWhileFed, HandlesNameLast
  <2>3. created[s] \in Nat
    BY Types DEF Inv
  <2> QED
    BY <2>2, <2>3
<1> QED
  BY Invariance, <1>1, PTL
=============================================================================
