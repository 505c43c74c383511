--------------------------- MODULE DrmSystemProofs ---------------------------
(***************************************************************************)
(* DrmSystem: for every number of clients, of entries in drm_clients and   *)
(* of faults the server reads only what is there (ReadNeverBlocks), works  *)
(* on what this connection has told it (InfoIsOwn) and leaves the screen   *)
(* as it was (LeftAsFound), and the clients release what they acquired     *)
(* (CleanupExact).                                                         *)
(***************************************************************************)
EXTENDS DrmSystem, FiniteSetTheorems, SequenceTheorems, WellFoundedInduction, TLAPS

-----------------------------------------------------------------------------
(* The inductive invariant: the clients *)

LabelNames == {"err_fb", "err_buffer_unmap", "err_buffer_destroy", "err_driver_destroy",
               "err_close_drm", "err_close_net"}

\* In a session: all is acquired.
Talking == {"send_auth", "send_show", "draw", "send_stop"} \cup Waits

\* What a client has acquired, by the place it is at.
HeldInv(c) ==
  /\ at[c] = "connect" => held[c] = {} /\ link[c] = "new"
  /\ at[c] = "setup" => held[c] = {"sock"}
  /\ at[c] \in Talking \cup {"err_fb"} => held[c] = Resources
  /\ at[c] = "err_buffer_unmap" => held[c] = Resources \ {"fb"}
  /\ at[c] = "err_buffer_destroy" => held[c] = Resources \ {"fb", "map"}
  /\ at[c] = "err_driver_destroy" => held[c] = {"sock", "fd", "magic", "driver"}
  /\ at[c] = "err_close_drm" => held[c] \in {{"sock", "fd"}, {"sock", "fd", "magic"}}
  /\ at[c] = "err_close_net" => held[c] = {"sock"}
  /\ at[c] = "done" => held[c] = {} /\ link[c] # "up"
  /\ at[c] \in Talking \cup {"setup"} => link[c] = "up"
  /\ c \in fbs <=> "fb" \in held[c]
  /\ result[c] = "none" <=> at[c] \notin LabelNames \cup {"done"}

-----------------------------------------------------------------------------
(* The clients' own part *)

\* The types it needs.
OwnTypeOK == ClientTypeOK /\ link \in [Clients -> {"new", "up", "closed"}] /\ fbs \subseteq Clients

\* Where the labels stand, and up to which release a step goes.
LEMMA LabelsAre ==
  /\ DOMAIN Labels = 1..6 /\ Len(Labels) = 6
  /\ Labels[1] = [label |-> "err_fb", res |-> "fb"]
  /\ Labels[2] = [label |-> "err_buffer_unmap", res |-> "map"]
  /\ Labels[3] = [label |-> "err_buffer_destroy", res |-> "bo"]
  /\ Labels[4] = [label |-> "err_driver_destroy", res |-> "driver"]
  /\ Labels[5] = [label |-> "err_close_drm", res |-> "fd"]
  /\ Labels[6] = [label |-> "err_close_net", res |-> "sock"]
BY DEF Labels

Release(k) == Min({m \in k..Len(Labels) : Labels[m].res \in {"fb", "fd", "sock"}})

LEMMA ReleaseIs ==
  /\ Release(1) = 1 /\ Release(6) = 6
  /\ \A k \in 2..5 : Release(k) = 5
<1>1. {m \in 1..6 : Labels[m].res \in {"fb", "fd", "sock"}} = {1, 5, 6}
  BY LabelsAre
<1>2. \A k \in 2..5 : {m \in k..6 : Labels[m].res \in {"fb", "fd", "sock"}} = {5, 6}
  BY LabelsAre
<1>3. {m \in 6..6 : Labels[m].res \in {"fb", "fd", "sock"}} = {6}
  BY LabelsAre
<1>4. Min({1, 5, 6}) = 1 /\ Min({5, 6}) = 5 /\ Min({6}) = 6
  <2>1. \A S \in SUBSET Nat : \A x \in S : (\A y \in S : x <= y) => Min(S) = x
    <3> SUFFICES ASSUME NEW S \in SUBSET Nat, NEW x \in S, \A y \in S : x <= y
                 PROVE  Min(S) = x
      OBVIOUS
    <3>1. Min(S) \in S /\ \A y \in S : Min(S) <= y BY DEF Min
    <3>2. Min(S) <= x /\ x <= Min(S) BY <3>1
    <3>3. x \in Nat /\ Min(S) \in Nat BY <3>1
    <3> QED BY ONLY <3>2, <3>3
  <2> QED BY <2>1
<1> QED BY <1>1, <1>2, <1>3, <1>4, LabelsAre DEF Release

LEMMA ResourcesAre ==
  /\ Resources = {"fb", "map", "bo", "driver", "fd", "sock", "magic"}
  /\ {Labels[n].label : n \in DOMAIN Labels} = LabelNames
BY LabelsAre DEF Resources, LabelNames

\* What the six calls of the setup acquire, one after the other.
LEMMA LadderIs ==
  /\ Len(Ladder) = 6
  /\ Ladder[1] = [res |-> "fd", fail |-> "err_close_net"]
  /\ Ladder[2] = [res |-> "magic", fail |-> "err_close_drm"]
  /\ Ladder[3] = [res |-> "driver", fail |-> "err_close_drm"]
  /\ Ladder[4] = [res |-> "bo", fail |-> "err_driver_destroy"]
  /\ Ladder[5] = [res |-> "map", fail |-> "err_buffer_destroy"]
  /\ Ladder[6] = [res |-> "fb", fail |-> "err_buffer_unmap"]
BY DEF Ladder

\* Cleanup, release by release.
LEMMA CleanupCases ==
  ASSUME NEW c \in Clients, Cleanup(c)
  PROVE  \/ /\ at[c] = "err_fb" /\ at' = [at EXCEPT ![c] = "err_buffer_unmap"]
            /\ held' = [held EXCEPT ![c] = @ \ {"fb"}]
            /\ RmFB(c) /\ UNCHANGED <<authed, link>>
         \/ /\ at[c] \in LabelNames \ {"err_fb", "err_close_net"}
            /\ at' = [at EXCEPT ![c] = "err_close_net"]
            /\ \E S : /\ held' = [held EXCEPT ![c] = @ \ S]
                      /\ {"fd", "fb", "magic"} \subseteq S
                      /\ at[c] # "err_close_drm" => "driver" \in S
                      /\ at[c] \in {"err_buffer_unmap", "err_buffer_destroy"} => "bo" \in S
                      /\ at[c] = "err_buffer_unmap" => "map" \in S
                      /\ "sock" \notin S
            /\ CloseDevice(c) /\ UNCHANGED link
         \/ /\ at[c] = "err_close_net" /\ at' = [at EXCEPT ![c] = "done"]
            /\ held' = [held EXCEPT ![c] = @ \ {"sock"}]
            /\ link' = (IF link[c] = "up" THEN [link EXCEPT ![c] = "closed"] ELSE link)
            /\ UNCHANGED deviceVars
<1>1. PICK n \in DOMAIN Labels :
        LET m == Release(n)
            r == Labels[m].res
        IN /\ at[c] = Labels[n].label
           /\ held' = [held EXCEPT ![c] =
                         (@ \ {Labels[k].res : k \in n..m})
                            \ (IF r = "fd" THEN {"fb", "magic"} ELSE {})]
           /\ Go(c, IF r = "sock" THEN "done" ELSE Labels[m + 1].label)
           /\ CASE r = "fb"   -> RmFB(c) /\ UNCHANGED authed
                [] r = "fd"   -> CloseDevice(c)
                [] r = "sock" -> UNCHANGED deviceVars
           /\ link' = IF r = "sock" /\ link[c] = "up" THEN [link EXCEPT ![c] = "closed"] ELSE link
  BY DEF Cleanup, Release
<1>2. CASE n = 1
  <2>1. Release(n) = 1 /\ Labels[1].res = "fb" /\ Labels[2].label = "err_buffer_unmap"
    BY <1>2, ReleaseIs, LabelsAre
  <2>2. held' = [held EXCEPT ![c] = (@ \ {Labels[k].res : k \in 1..1}) \ {}]
    BY <1>1, <1>2, <2>1
  <2>3. (held[c] \ {Labels[k].res : k \in 1..1}) \ {} = held[c] \ {"fb"}
    BY LabelsAre
  <2>4. held' = [held EXCEPT ![c] = @ \ {"fb"}] BY <2>2, <2>3
  <2>5. at' = [at EXCEPT ![c] = "err_buffer_unmap"] /\ at[c] = "err_fb"
    <3>1. at[c] = Labels[1].label BY <1>1, <1>2
    <3>2. Go(c, Labels[2].label) BY <1>1, <1>2, <2>1
    <3> QED BY <2>1, <3>1, <3>2, LabelsAre DEF Go
  <2>6. RmFB(c) /\ UNCHANGED <<authed, link>> BY <1>1, <2>1
  <2> QED BY <2>4, <2>5, <2>6
<1>3. CASE n \in 2..5
  <2> DEFINE A == {Labels[k].res : k \in n..5}
             S == A \cup {"fb", "magic"}
  <2>1. Release(n) = 5 /\ Labels[5].res = "fd" /\ Labels[6].label = "err_close_net"
    BY <1>3, ReleaseIs, LabelsAre
  <2>2. held' = [held EXCEPT ![c] = @ \ S]
    <3>1. held' = [held EXCEPT ![c] = (@ \ A) \ {"fb", "magic"}] BY <1>1, <2>1
    <3> HIDE DEF A
    <3>2. (held[c] \ A) \ {"fb", "magic"} = held[c] \ S OBVIOUS
    <3> QED BY <3>1, <3>2
  <2>3. at' = [at EXCEPT ![c] = "err_close_net"]
    <3>1. Go(c, Labels[5 + 1].label) BY <1>1, <2>1
    <3>2. 5 + 1 = 6 OBVIOUS
    <3>3. Go(c, "err_close_net") BY <2>1, <3>1, <3>2
    <3> QED BY <3>3 DEF Go
  <2>4. /\ "fd" \in S /\ "sock" \notin S
        /\ n <= 4 => "driver" \in S
        /\ n <= 3 => "bo" \in S
        /\ n = 2 => "map" \in S
    BY <1>3, LabelsAre
  <2>5. /\ n = 2 => at[c] = "err_buffer_unmap"
        /\ n = 3 => at[c] = "err_buffer_destroy"
        /\ n = 4 => at[c] = "err_driver_destroy"
        /\ n = 5 => at[c] = "err_close_drm"
        /\ n \in {2, 3, 4, 5}
    BY <1>1, <1>3, LabelsAre
  <2>6. {"fb", "magic"} \subseteq S OBVIOUS
  <2>7. CloseDevice(c) /\ UNCHANGED link BY <1>1, <2>1
  <2> HIDE DEF S
  <2>8. /\ at[c] \in LabelNames \ {"err_fb", "err_close_net"}
        /\ {"fd", "fb", "magic"} \subseteq S
        /\ at[c] # "err_close_drm" => "driver" \in S
        /\ at[c] \in {"err_buffer_unmap", "err_buffer_destroy"} => "bo" \in S
        /\ at[c] = "err_buffer_unmap" => "map" \in S
        /\ "sock" \notin S
    BY <2>4, <2>5, <2>6 DEF LabelNames
  <2> QED BY <2>2, <2>3, <2>7, <2>8
<1>4. CASE n = 6
  <2>1. Release(n) = 6 /\ Labels[6].res = "sock" BY <1>4, ReleaseIs, LabelsAre
  <2>2. held' = [held EXCEPT ![c] = (@ \ {Labels[k].res : k \in 6..6}) \ {}]
    BY <1>1, <1>4, <2>1
  <2>3. (held[c] \ {Labels[k].res : k \in 6..6}) \ {} = held[c] \ {"sock"}
    BY LabelsAre
  <2>4. held' = [held EXCEPT ![c] = @ \ {"sock"}] BY <2>2, <2>3
  <2>5. at' = [at EXCEPT ![c] = "done"] /\ at[c] = "err_close_net"
    <3>1. at[c] = Labels[6].label BY <1>1, <1>4
    <3>2. Go(c, "done") BY <1>1, <2>1
    <3> QED BY <3>1, <3>2, LabelsAre DEF Go
  <2>6. /\ UNCHANGED deviceVars
        /\ link' = (IF link[c] = "up" THEN [link EXCEPT ![c] = "closed"] ELSE link)
    BY <1>1, <2>1
  <2> QED BY <2>4, <2>5, <2>6
<1> QED BY <1>2, <1>3, <1>4, LabelsAre

OwnInv == OwnTypeOK /\ \A c \in Clients : HeldInv(c)

\* Other clients do not change what is c's.
LEMMA HeldStays ==
  ASSUME NEW c, HeldInv(c), at'[c] = at[c], held'[c] = held[c], result'[c] = result[c],
         link'[c] = link[c], c \in fbs' <=> c \in fbs
  PROVE  HeldInv(c)'
BY DEF HeldInv

\* A step of client c alone.
LEMMA HeldOfOthers ==
  ASSUME OwnInv, NEW c \in Clients,
         at' = [at EXCEPT ![c] = at'[c]], held' = [held EXCEPT ![c] = held'[c]],
         result' = [result EXCEPT ![c] = result'[c]], link' = [link EXCEPT ![c] = link'[c]],
         fbs' \ {c} = fbs \ {c}, HeldInv(c)'
  PROVE  \A d \in Clients : HeldInv(d)'
<1> SUFFICES ASSUME NEW d \in Clients, d # c PROVE HeldInv(d)'
  OBVIOUS
<1>1. at'[d] = at[d] /\ held'[d] = held[d] /\ result'[d] = result[d] /\ link'[d] = link[d]
  BY DEF OwnInv, OwnTypeOK, ClientTypeOK
<1>2. d \in fbs' <=> d \in fbs OBVIOUS
<1> QED BY <1>1, <1>2, HeldStays DEF OwnInv

\* The session's places are not those of the labels.
LEMMA Places ==
  /\ \A x \in Talking \cup {"setup", "connect"} : x \notin LabelNames \cup {"done"}
  /\ "err_fb" \in LabelNames /\ "err_close_net" \in LabelNames
  /\ "connect" \notin Talking /\ "setup" \notin Talking
BY DEF Talking, LabelNames, Waits

LEMMA AtIs ==
  ASSUME ClientTypeOK, NEW c \in Clients
  PROVE  /\ at[c] \in {"connect", "setup", "done"} \cup Talking \cup LabelNames
         /\ at \in [Clients -> {"connect", "setup", "done"} \cup Talking \cup LabelNames]
BY ResourcesAre DEF ClientTypeOK, Talking, LabelNames

LEMMA ConnectHeld ==
  ASSUME OwnInv, NEW c \in Clients, Connect(c, Listening)
  PROVE  OwnInv'
<1> USE DEF Connect
<1>1. held[c] = {} /\ link[c] = "new" /\ c \notin fbs /\ result[c] = "none"
  BY DEF OwnInv, HeldInv, LabelNames
<1>2. held' = [held EXCEPT ![c] = {"sock"}] /\ fbs' = fbs BY DEF deviceVars
<1>3. CASE /\ link' = [link EXCEPT ![c] = "up"] /\ at' = [at EXCEPT ![c] = "setup"]
           /\ result' = result
  <2>1. OwnTypeOK' BY <1>2, <1>3, ResourcesAre DEF OwnInv, OwnTypeOK, ClientTypeOK, NoFault
  <2>2. HeldInv(c)'
    <3>1. held'[c] = {"sock"} /\ link'[c] = "up" /\ at'[c] = "setup" /\ result'[c] = "none"
      BY <1>1, <1>2, <1>3 DEF OwnInv, OwnTypeOK, ClientTypeOK
    <3> QED BY <1>1, <1>2, <3>1 DEF HeldInv, Talking, LabelNames, Waits
  <2>3. \A d \in Clients : HeldInv(d)'
    BY <1>2, <1>3, <2>2, HeldOfOthers DEF OwnInv, OwnTypeOK, ClientTypeOK
  <2> QED BY <2>1, <2>3 DEF OwnInv
<1>4. CASE /\ at' = [at EXCEPT ![c] = "err_close_net"]
           /\ result' = [result EXCEPT ![c] = "failed"] /\ link' = link
  <2>1. OwnTypeOK' BY <1>2, <1>4, ResourcesAre DEF OwnInv, OwnTypeOK, ClientTypeOK, NoFault, LabelNames
  <2>2. HeldInv(c)'
    <3>1. held'[c] = {"sock"} /\ at'[c] = "err_close_net" /\ result'[c] = "failed"
      BY <1>2, <1>4 DEF OwnInv, OwnTypeOK, ClientTypeOK
    <3> QED BY <1>1, <1>2, <3>1 DEF HeldInv, Talking, LabelNames, Waits
  <2>3. \A d \in Clients : HeldInv(d)'
    BY <1>2, <1>4, <2>2, HeldOfOthers DEF OwnInv, OwnTypeOK, ClientTypeOK
  <2> QED BY <2>1, <2>3 DEF OwnInv
<1> QED BY <1>3, <1>4 DEF Go, Leave

\* What the calls that succeeded have acquired belongs to the label the next one
\* goes to when it fails.
LEMMA AcquireHeld ==
  ASSUME OwnInv, NEW c \in Clients, Acquire(c)
  PROVE  OwnInv'
<1>1. PICK reached \in 0..6 :
        LET got == {Ladder[n].res : n \in 1..reached}
        IN /\ at[c] = "setup"
           /\ held' = [held EXCEPT ![c] = @ \cup got]
           /\ fbs' = IF "fb" \in got THEN fbs \cup {c} ELSE fbs
           /\ IF reached = 6
                THEN Go(c, "send_auth") /\ UNCHANGED result
                ELSE Leave(c, FailLabel(reached + 1), "failed")
           /\ UNCHANGED <<socketVars, authed, crtc, plane>> /\ NoFault
  BY LadderIs DEF Acquire
<1> DEFINE got == {Ladder[n].res : n \in 1..reached}
<1>2. /\ held[c] = {"sock"} /\ link[c] = "up" /\ c \notin fbs /\ result[c] = "none"
      /\ link' = link /\ faults' = faults
  BY <1>1, Places DEF OwnInv, HeldInv, socketVars, NoFault
<1>3. /\ reached = 0 => got = {}
      /\ reached = 1 => got = {"fd"}
      /\ reached = 2 => got = {"fd", "magic"}
      /\ reached = 3 => got = {"fd", "magic", "driver"}
      /\ reached = 4 => got = {"fd", "magic", "driver", "bo"}
      /\ reached = 5 => got = {"fd", "magic", "driver", "bo", "map"}
      /\ reached = 6 => got = {"fd", "magic", "driver", "bo", "map", "fb"}
  BY LadderIs
<1>4. /\ held' = [held EXCEPT ![c] = {"sock"} \cup got]
      /\ fbs' = IF "fb" \in got THEN fbs \cup {c} ELSE fbs
  BY <1>1, <1>2
<1> HIDE DEF got
<1>5. CASE reached = 6
  <2>1. at' = [at EXCEPT ![c] = "send_auth"] /\ result' = result BY <1>1, <1>5 DEF Go
  <2>2. held'[c] = Resources /\ fbs' = fbs \cup {c} /\ at'[c] = "send_auth" /\ result'[c] = "none"
        /\ held' = [held EXCEPT ![c] = Resources]
    <3>1. {"sock"} \cup got = Resources /\ "fb" \in got BY <1>3, <1>5, ResourcesAre
    <3> QED BY <1>2, <1>4, <2>1, <3>1 DEF OwnInv, OwnTypeOK, ClientTypeOK
  <2>3. OwnTypeOK' BY <1>2, <2>1, <2>2 DEF OwnInv, OwnTypeOK, ClientTypeOK
  <2>4. HeldInv(c)' BY <1>2, <2>2, ResourcesAre DEF HeldInv, Talking, LabelNames, Waits
  <2>5. \A d \in Clients : HeldInv(d)'
    BY <1>2, <2>1, <2>2, <2>4, HeldOfOthers DEF OwnInv, OwnTypeOK, ClientTypeOK
  <2> QED BY <2>3, <2>5 DEF OwnInv
<1>6. CASE reached # 6
  <2>1. /\ FailLabel(reached + 1) \in LabelNames \ {"err_fb"}
        /\ FailLabel(reached + 1) = "err_close_net" => reached = 0
        /\ FailLabel(reached + 1) = "err_close_drm" => reached \in {1, 2}
        /\ FailLabel(reached + 1) = "err_driver_destroy" => reached = 3
        /\ FailLabel(reached + 1) = "err_buffer_destroy" => reached = 4
        /\ FailLabel(reached + 1) = "err_buffer_unmap" => reached = 5
    <3>1. reached \in {0, 1, 2, 3, 4, 5} BY <1>6
    <3>2. 0 + 1 = 1 /\ 1 + 1 = 2 /\ 2 + 1 = 3 /\ 3 + 1 = 4 /\ 4 + 1 = 5 /\ 5 + 1 = 6 OBVIOUS
    <3> QED BY <3>1, <3>2, LadderIs DEF FailLabel, LabelNames
  <2> DEFINE label == FailLabel(reached + 1)
  <2>2. at' = [at EXCEPT ![c] = label] /\ result' = [result EXCEPT ![c] = "failed"]
    BY <1>1, <1>6 DEF Leave, Go
  <2> HIDE DEF label
  <2>3. "fb" \notin got /\ got \subseteq Resources BY <1>3, <1>6, ResourcesAre
  <2>4. fbs' = fbs /\ held'[c] = {"sock"} \cup got /\ at'[c] = label /\ result'[c] = "failed"
    BY <1>4, <2>2, <2>3 DEF OwnInv, OwnTypeOK, ClientTypeOK
  <2>5. OwnTypeOK'
    <3>1. {"sock"} \cup got \in SUBSET Resources BY <2>3, ResourcesAre
    <3>2. held' \in [Clients -> SUBSET Resources] BY <1>4, <3>1 DEF OwnInv, OwnTypeOK, ClientTypeOK
    <3>3. label \in {Labels[n].label : n \in DOMAIN Labels} BY <2>1, ResourcesAre DEF label
    <3> QED BY <1>2, <2>2, <2>4, <3>2, <3>3 DEF OwnInv, OwnTypeOK, ClientTypeOK
  <2>6. HeldInv(c)'
    BY <1>2, <1>3, <2>1, <2>3, <2>4, ResourcesAre
    DEF HeldInv, Talking, LabelNames, Waits, label
  <2>7. \A d \in Clients : HeldInv(d)'
    BY <1>2, <1>4, <2>2, <2>4, <2>6, HeldOfOthers DEF OwnInv, OwnTypeOK, ClientTypeOK
  <2> QED BY <2>5, <2>7 DEF OwnInv
<1> QED BY <1>5, <1>6

LEMMA CleanupHeld ==
  ASSUME OwnInv, NEW c \in Clients, Cleanup(c)
  PROVE  OwnInv'
<1>0. result' = result /\ faults' = faults BY DEF Cleanup, NoFault
<1> USE DEF OwnTypeOK, ClientTypeOK
<1>1. CASE /\ at[c] = "err_fb" /\ at' = [at EXCEPT ![c] = "err_buffer_unmap"]
           /\ held' = [held EXCEPT ![c] = @ \ {"fb"}]
           /\ RmFB(c) /\ UNCHANGED <<authed, link>>
  <2>1. fbs' = fbs \ {c} BY <1>1 DEF RmFB
  <2>2. held[c] = Resources /\ result[c] # "none" BY <1>1 DEF OwnInv, HeldInv, LabelNames
  <2>3. OwnTypeOK' BY <1>0, <1>1, <2>1, ResourcesAre DEF OwnInv, LabelNames
  <2>4. HeldInv(c)'
    <3>1. held'[c] = Resources \ {"fb"} /\ at'[c] = "err_buffer_unmap"
      BY <1>1, <2>2 DEF OwnInv
    <3> QED BY <1>0, <2>1, <2>2, <3>1, ResourcesAre DEF HeldInv, Talking, LabelNames, Waits
  <2>5. \A d \in Clients : HeldInv(d)'
    BY <1>0, <1>1, <2>1, <2>4, HeldOfOthers DEF OwnInv
  <2> QED BY <2>3, <2>5 DEF OwnInv
<1>2. CASE /\ at[c] \in LabelNames \ {"err_fb", "err_close_net"}
           /\ at' = [at EXCEPT ![c] = "err_close_net"]
           /\ \E S : /\ held' = [held EXCEPT ![c] = @ \ S]
                     /\ {"fd", "fb", "magic"} \subseteq S
                     /\ at[c] # "err_close_drm" => "driver" \in S
                     /\ at[c] \in {"err_buffer_unmap", "err_buffer_destroy"} => "bo" \in S
                     /\ at[c] = "err_buffer_unmap" => "map" \in S
                     /\ "sock" \notin S
           /\ CloseDevice(c) /\ UNCHANGED link
  <2>1. fbs' = fbs \ {c} BY <1>2 DEF CloseDevice, RmFB
  <2>2. held' = [held EXCEPT ![c] = {"sock"}] /\ result[c] # "none"
    <3>1. PICK S : /\ held' = [held EXCEPT ![c] = @ \ S]
                   /\ {"fd", "fb", "magic"} \subseteq S
                   /\ at[c] # "err_close_drm" => "driver" \in S
                   /\ at[c] \in {"err_buffer_unmap", "err_buffer_destroy"} => "bo" \in S
                   /\ at[c] = "err_buffer_unmap" => "map" \in S
                   /\ "sock" \notin S
      BY <1>2
    <3>2. held[c] \ S = {"sock"}
      BY <1>2, <3>1, ResourcesAre DEF OwnInv, HeldInv, LabelNames
    <3>3. result[c] # "none" BY <1>2 DEF OwnInv, HeldInv
    <3> QED BY <3>1, <3>2, <3>3
  <2>3. OwnTypeOK' BY <1>0, <1>2, <2>1, <2>2, ResourcesAre DEF OwnInv, LabelNames
  <2>4. HeldInv(c)'
    <3>1. held'[c] = {"sock"} /\ at'[c] = "err_close_net" BY <1>2, <2>2 DEF OwnInv
    <3> QED BY <1>0, <2>1, <2>2, <3>1 DEF HeldInv, Talking, LabelNames, Waits
  <2>5. \A d \in Clients : HeldInv(d)'
    BY <1>0, <1>2, <2>1, <2>2, <2>4, HeldOfOthers DEF OwnInv
  <2> QED BY <2>3, <2>5 DEF OwnInv
<1>3. CASE /\ at[c] = "err_close_net" /\ at' = [at EXCEPT ![c] = "done"]
           /\ held' = [held EXCEPT ![c] = @ \ {"sock"}]
           /\ link' = (IF link[c] = "up" THEN [link EXCEPT ![c] = "closed"] ELSE link)
           /\ UNCHANGED deviceVars
  <2>1. fbs' = fbs BY <1>3 DEF deviceVars
  <2>2. held[c] = {"sock"} /\ result[c] # "none" /\ c \notin fbs
    BY <1>3 DEF OwnInv, HeldInv, LabelNames
  <2>3. OwnTypeOK' BY <1>0, <1>3, <2>1 DEF OwnInv
  <2>4. held'[c] = {} /\ at'[c] = "done" /\ link'[c] # "up" /\ link' = [link EXCEPT ![c] = link'[c]]
        /\ held' = [held EXCEPT ![c] = held'[c]]
    BY <1>3, <2>2 DEF OwnInv
  <2>5. HeldInv(c)' BY <1>0, <2>1, <2>2, <2>4 DEF HeldInv, Talking, LabelNames, Waits
  <2>6. \A d \in Clients : HeldInv(d)'
    BY <1>0, <1>3, <2>1, <2>4, <2>5, HeldOfOthers DEF OwnInv
  <2> QED BY <2>3, <2>6 DEF OwnInv
<1> QED BY <1>1, <1>2, <1>3, CleanupCases

LEMMA KilledHeld ==
  ASSUME OwnInv, NEW c \in Clients, Killed(c), faults' \in 0..MaxFaults
  PROVE  OwnInv'
<1> USE DEF OwnTypeOK, ClientTypeOK, Killed
<1>1. fbs' = fbs \ {c} BY DEF CloseDevice, RmFB
<1>2. OwnTypeOK' BY <1>1 DEF OwnInv
<1>3. held'[c] = {} /\ at'[c] = "done" /\ link'[c] # "up" /\ link' = [link EXCEPT ![c] = link'[c]]
      /\ result'[c] = "killed"
  BY DEF OwnInv
<1>4. HeldInv(c)' BY <1>1, <1>3 DEF HeldInv, Talking, LabelNames, Waits
<1>5. \A d \in Clients : HeldInv(d)' BY <1>1, <1>3, <1>4, HeldOfOthers DEF OwnInv
<1> QED BY <1>2, <1>5 DEF OwnInv

\* In its session a client holds all, until it leaves for the first label.
LEMMA TalkHeld ==
  ASSUME OwnInv, NEW c \in Clients, at[c] \in Talking, UNCHANGED <<held, link, fbs>>,
         faults' \in 0..MaxFaults,
         \/ \E to \in Talking : at' = [at EXCEPT ![c] = to] /\ UNCHANGED result
         \/ \E how \in {"ok", "failed"} : at' = [at EXCEPT ![c] = "err_fb"]
                                           /\ result' = [result EXCEPT ![c] = how]
  PROVE  OwnInv'
<1> USE DEF OwnTypeOK, ClientTypeOK
<1>0. /\ held[c] = Resources /\ link[c] = "up" /\ c \in fbs /\ result[c] = "none"
      /\ held' = held /\ link' = link /\ fbs' = fbs
  BY Places, ResourcesAre DEF OwnInv, HeldInv
<1>1. ASSUME NEW to \in Talking, at' = [at EXCEPT ![c] = to], UNCHANGED result
      PROVE  OwnInv'
  <2>1. OwnTypeOK' BY <1>0, <1>1 DEF OwnInv, Talking, Waits
  <2>2. at'[c] = to /\ result'[c] = "none" BY <1>0, <1>1 DEF OwnInv
  <2>3. HeldInv(c)' BY <1>0, <2>2, ResourcesAre DEF HeldInv, Talking, LabelNames, Waits
  <2>4. \A d \in Clients : HeldInv(d)' BY <1>0, <1>1, <2>3, HeldOfOthers DEF OwnInv
  <2> QED BY <2>1, <2>4 DEF OwnInv
<1>2. ASSUME NEW how \in {"ok", "failed"}, at' = [at EXCEPT ![c] = "err_fb"],
             result' = [result EXCEPT ![c] = how]
      PROVE  OwnInv'
  <2>1. OwnTypeOK' BY <1>0, <1>2, ResourcesAre DEF OwnInv, LabelNames
  <2>2. at'[c] = "err_fb" /\ result'[c] = how BY <1>2 DEF OwnInv
  <2>3. HeldInv(c)' BY <1>0, <2>2, ResourcesAre DEF HeldInv, Talking, LabelNames, Waits
  <2>4. \A d \in Clients : HeldInv(d)' BY <1>0, <1>2, <2>3, HeldOfOthers DEF OwnInv
  <2> QED BY <2>1, <2>4 DEF OwnInv
<1> QED BY <1>1, <1>2

LEMMA FaultsBound ==
  ASSUME OwnTypeOK, NoFault \/ Fault
  PROVE  faults' \in 0..MaxFaults
BY ClientAssumption DEF OwnTypeOK, ClientTypeOK, NoFault, Fault

\* What a talking client does next, but for being killed.
LEMMA TalkCases ==
  ASSUME NEW c \in Clients, Receive(c) \/ Timeout(c) \/ Key(c) \/ (Send(c) /\ ~Killed(c))
  PROVE  /\ at[c] \in Talking /\ UNCHANGED <<held, link, deviceVars, dropped, backlog, path>>
         /\ \/ \E to \in Talking : at' = [at EXCEPT ![c] = to] /\ UNCHANGED result
            \/ \E how \in {"ok", "failed"} : at' = [at EXCEPT ![c] = "err_fb"]
                                              /\ result' = [result EXCEPT ![c] = how]
<1> USE DEF Talking, Waits, Go, Leave
<1>1. CASE Receive(c)
  <2>1. /\ at[c] \in Waits /\ UNCHANGED <<held, link, deviceVars, dropped, backlog, path>>
    BY <1>1 DEF Receive
  <2>2. CASE resp[c] = "DRM_OK"
    BY <1>1, <2>1, <2>2 DEF Receive
  <2>3. CASE resp[c] # "DRM_OK"
    BY <1>1, <2>1, <2>3 DEF Receive
  <2> QED BY <2>2, <2>3
<1>2. CASE Timeout(c) BY <1>2 DEF Timeout, protoVars, socketVars
<1>3. CASE Key(c) BY <1>3 DEF Key, protoVars, socketVars
<1>4. CASE Send(c) /\ ~Killed(c) BY <1>4 DEF Send
<1> QED BY <1>1, <1>2, <1>3, <1>4

LEMMA OwnInvNext == OwnInv /\ [Next]_vars => OwnInv'
<1> SUFFICES ASSUME OwnInv, [Next]_vars PROVE OwnInv'
  OBVIOUS
<1>1. ASSUME UNCHANGED <<at, held, result, faults, link, fbs>> PROVE OwnInv'
  <2>1. OwnTypeOK' BY <1>1 DEF OwnInv, OwnTypeOK, ClientTypeOK
  <2>2. \A d \in Clients : HeldInv(d)' BY <1>1, HeldStays DEF OwnInv
  <2> QED BY <2>1, <2>2 DEF OwnInv
<1>2. CASE ServerStep
  BY <1>1, <1>2 DEF ServerStep, clientVars, Server, SigInt, Restart, Bind, Check, Poll,
     Interrupted, Accept, Scan, Read, Request, Auth, CrtcSave, CrtcSet, PlaneSet, CrtcStop,
     PlaneStop, Reply, CloseListener, Unlink, sameLoop, deviceVars, socketVars, protoVars
<1>3. ASSUME NEW c \in Clients, ClientStep(c) PROVE OwnInv'
  <2>1. CASE Connect(c, Listening) BY <2>1, ConnectHeld
  <2>2. CASE Acquire(c) BY <2>2, AcquireHeld
  <2>3. CASE Cleanup(c) BY <2>3, CleanupHeld
  <2>4. CASE Killed(c) /\ (NoFault \/ Fault)
    BY <2>4, KilledHeld, FaultsBound DEF OwnInv
  <2>5. CASE Receive(c) \/ Timeout(c) \/ Key(c) \/ (Send(c) /\ ~Killed(c))
    <3>1. NoFault \/ Fault BY <2>5 DEF Receive, Timeout, Key, Send
    <3> QED BY <2>5, <3>1, TalkCases, TalkHeld, FaultsBound DEF OwnInv, deviceVars
  <2>6. Send(c) => NoFault BY DEF Send
  <2>7. Kill(c) => Killed(c) /\ Fault BY DEF Kill
  <2> QED BY <1>3, <2>1, <2>2, <2>3, <2>4, <2>5, <2>6, <2>7 DEF ClientStep, Client
<1>4. CASE UNCHANGED vars
  BY <1>1, <1>4 DEF vars, clientVars, protoVars, socketVars, deviceVars
<1> QED BY <1>2, <1>3, <1>4 DEF Next

LEMMA Init_OwnInv == Init => OwnInv
BY ClientAssumption DEF Init, ProtoInit, ClientInit, OwnInv, OwnTypeOK, ClientTypeOK, HeldInv, Talking,
   LabelNames, Waits

\* From each label on which a client of the DRM server leaves, whatever call failed
\* and whenever the server closed, it releases only what it has acquired, and at its
\* end it holds nothing: no framebuffer and no connection.
THEOREM ClientsCleanUp == Spec => []CleanupExact
<1>1. OwnInv => CleanupExact
  <2> SUFFICES ASSUME OwnInv, NEW c \in Clients
               PROVE  /\ \A n \in DOMAIN Labels : at[c] = Labels[n].label =>
                           \A k \in n..Len(Labels) : Labels[k].res \in held[c]
                      /\ at[c] = "done" => held[c] = {} /\ c \notin fbs /\ link[c] # "up"
    BY DEF CleanupExact
  <2>1. HeldInv(c) BY DEF OwnInv
  <2>2. at[c] = "done" => held[c] = {} /\ c \notin fbs /\ link[c] # "up"
    BY <2>1 DEF HeldInv
  <2>3. ASSUME NEW n \in 1..6, at[c] = Labels[n].label, NEW k \in n..6
        PROVE  Labels[k].res \in held[c]
    <3>1. n \in {1, 2, 3, 4, 5, 6} /\ k \in {1, 2, 3, 4, 5, 6} /\ n <= k OBVIOUS
    <3> QED BY <2>1, <2>3, <3>1, LabelsAre, ResourcesAre DEF HeldInv
  <2> QED BY <2>2, <2>3, LabelsAre
<1> QED BY <1>1, Init_OwnInv, OwnInvNext, PTL DEF Spec

-----------------------------------------------------------------------------
(* The server's slots and its rounds *)

\* The server works on the request in slot i, or answers it.
Work == {"auth", "crtc_save", "crtc_set", "plane_set", "crtc_stop", "plane_stop", "reply"}
Working(c) == pc \in Work /\ slot[i] = c

\* A connection is in the queue, in one slot, or closed.
PlaceInv(c) ==
  /\ c \in ToSet(backlog) \cup dropped => link[c] # "new"
  /\ c \notin ToSet(backlog) \/ c \notin dropped
  /\ (\E j \in Used : slot[j] = c) <=> link[c] # "new" /\ c \notin dropped \cup ToSet(backlog)

SlotsInv ==
  /\ \A m, n \in 1..Len(backlog) : backlog[m] = backlog[n] => m = n
  /\ \A j, k \in Used : slot[j] = slot[k] => j = k
  /\ pc \in Gone \cup {"bind"} => Used = {} /\ backlog = <<>>

\* Slots the loop has yet to come to are as poll() saw them.
RoundInv ==
  /\ pc \in {"accept", "scan", "read"} \cup Work => rc >= 1
  /\ pc = "accept" => backlog # <<>> /\ revents \subseteq Used
  /\ pc \in {"read"} \cup Work => i \in Used
  /\ pc = "read" => Readable(slot[i])
  /\ pc \in {"accept", "scan"} => \A j \in Used \cap revents : j >= i => Readable(slot[j])
  /\ pc \in {"read"} \cup Work => \A j \in Used \cap revents : j > i => Readable(slot[j])

-----------------------------------------------------------------------------
(* The server's rounds: what a step of a client is to them *)

ServerPart == ProtoTypeOK /\ ServerTypeOK /\ SlotsInv /\ RoundInv
RoundsInv == OwnInv /\ ServerPart /\ \A c \in Clients : PlaceInv(c)

\* Every nonempty set of natural numbers has a least element.
LEMMA LeastNatural ==
  ASSUME NEW S \in SUBSET Nat, S # {}
  PROVE  Min(S) \in S /\ \A x \in S : Min(S) <= x
<1> DEFINE R == OpToRel(<, Nat)
<1>1. \E x \in S : \A y \in S : ~(<<y, x>> \in R)
  BY NatLessThanWellFounded, WFMin
<1>2. \A x, y \in Nat : y < x => <<y, x>> \in R
  BY DEF OpToRel
<1> HIDE DEF R
<1>3. PICK x \in S : \A y \in S : ~(<<y, x>> \in R)
  BY <1>1
<1>4. \A y \in S : ~(y < x)
  BY <1>2, <1>3, Zenon
<1>5. \A y \in S : x <= y
  BY <1>4
<1> QED BY <1>5 DEF Min

LEMMA Strangers ==
  /\ NoClient \notin Clients /\ "console" \notin Clients /\ "off" \notin Clients
  /\ "null" \notin Clients /\ "junk" \notin Clients
  /\ CrtcClients \subseteq Clients /\ MAXCLIENTS \in Nat /\ MAXCLIENTS >= 1
BY ProtoAssumption DEF Clients

LEMMA UsedIs ==
  ASSUME ServerTypeOK
  PROVE  /\ Used \subseteq Slots /\ \A j \in Used : slot[j] \in Clients
         /\ \A j \in Slots : slot[j] \in Clients => j \in Used
         /\ \A j \in Slots : j \in Nat /\ j < MAXCLIENTS
BY Strangers DEF ServerTypeOK, Used, Slots

LEMMA Enqueue ==
  ASSUME NEW s \in Seq(Clients), NEW c \in Clients,
         \A m, n \in 1..Len(s) : s[m] = s[n] => m = n
  PROVE  /\ Append(s, c) \in Seq(Clients) /\ ToSet(Append(s, c)) = ToSet(s) \cup {c}
         /\ Append(s, c) # <<>>
         /\ c \notin ToSet(s) =>
              \A m, n \in 1..Len(Append(s, c)) : Append(s, c)[m] = Append(s, c)[n] => m = n
<1> DEFINE t == Append(s, c)
<1>1. /\ Len(s) \in Nat /\ Len(t) = Len(s) + 1
      /\ t[Len(s) + 1] = c /\ t \in Seq(Clients)
      /\ \A k \in 1..Len(s) : t[k] = s[k]
  BY AppendProperties, LenProperties
<1> HIDE DEF t
<1>2. ToSet(s) = {s[k] : k \in 1..Len(s)} BY DEF ToSet
<1>3. ToSet(t) = {t[k] : k \in 1..Len(t)}
  <2>1. DOMAIN t = 1..Len(t) BY <1>1, LenProperties
  <2> QED BY <2>1 DEF ToSet
<1>4. t # <<>> BY <1>1, EmptySeq
<1>5. ToSet(t) = ToSet(s) \cup {c} BY <1>1, <1>2, <1>3
<1>6. c \notin ToSet(s) => \A m, n \in 1..Len(t) : t[m] = t[n] => m = n
  BY <1>1, <1>2
<1> QED BY <1>1, <1>4, <1>5, <1>6 DEF t

LEMMA Dequeue ==
  ASSUME NEW s \in Seq(Clients), s # <<>>,
         \A m, n \in 1..Len(s) : s[m] = s[n] => m = n
  PROVE  /\ Head(s) \in ToSet(s) /\ ToSet(Tail(s)) = ToSet(s) \ {Head(s)}
         /\ Head(s) \in Clients /\ Tail(s) \in Seq(Clients)
         /\ \A m, n \in 1..Len(Tail(s)) : Tail(s)[m] = Tail(s)[n] => m = n
<1> DEFINE t == Tail(s)
<1>1. /\ Len(s) \in Nat \ {0} /\ Len(t) = Len(s) - 1
      /\ \A k \in 1..Len(t) : t[k] = s[k + 1]
      /\ t \in Seq(Clients)
  BY HeadTailProperties, EmptySeq
<1>2. Head(s) = s[1] OBVIOUS
<1> HIDE DEF t
<1>3. ToSet(s) = {s[k] : k \in 1..Len(s)} BY DEF ToSet
<1>4. ToSet(t) = {t[k] : k \in 1..Len(t)}
  <2>1. DOMAIN t = 1..Len(t) BY <1>1, LenProperties
  <2> QED BY <2>1 DEF ToSet
<1>5. Head(s) \in ToSet(s) BY <1>1, <1>2, <1>3
<1>6. ToSet(t) = ToSet(s) \ {Head(s)}
  <2>1. \A k \in 2..Len(s) : k - 1 \in 1..Len(t) /\ t[k - 1] = s[k]
    BY <1>1
  <2>2. \A k \in 2..Len(s) : s[k] # s[1] BY <1>1
  <2>3. ToSet(t) \subseteq ToSet(s) \ {Head(s)} BY <1>1, <1>2, <1>3, <1>4, <2>2
  <2>4. ToSet(s) \ {Head(s)} \subseteq ToSet(t)
    <3> SUFFICES ASSUME NEW k \in 1..Len(s), s[k] # s[1]
                 PROVE  s[k] \in ToSet(t)
      BY <1>2, <1>3
    <3>1. k \in 2..Len(s) BY <1>1
    <3> QED BY <1>4, <2>1, <3>1
  <2> QED BY <2>3, <2>4
<1>7. \A m, n \in 1..Len(t) : t[m] = t[n] => m = n
  BY <1>1
<1> QED BY <1>1, <1>5, <1>6, <1>7, HeadTailProperties DEF t

\* What every step of a client leaves as it is, and what else it may do.
LEMMA ClientCases ==
  ASSUME NEW c \in Clients, OwnInv, ClientStep(c)
  PROVE  /\ UNCHANGED <<serverVars, dropped, path>>
         /\ \/ /\ at[c] = "connect" /\ link[c] = "new" /\ Connect(c, Listening)
               /\ Listening /\ link' = [link EXCEPT ![c] = "up"] /\ backlog' = Append(backlog, c)
               /\ UNCHANGED <<req, resp, deviceVars>>
            \/ /\ UNCHANGED backlog
               /\ link' = link \/ (link[c] = "up" /\ link' = [link EXCEPT ![c] = "closed"])
               /\ req' = req \/ \E cmd \in Commands : req' = [req EXCEPT ![c] = cmd]
               /\ resp' = resp \/ resp' = [resp EXCEPT ![c] = "none"]
               /\ \/ UNCHANGED deviceVars
                  \/ RmFB(c) /\ authed' \in {authed, authed \ {c}}
                  \/ fbs' = fbs \cup {c} /\ UNCHANGED <<authed, crtc, plane>>
<1>1. UNCHANGED serverVars BY DEF ClientStep
<1>2. CASE Connect(c, Listening)
  BY <1>1, <1>2 DEF Connect, OwnInv, HeldInv, deviceVars
<1>3. CASE Acquire(c) BY <1>1, <1>3 DEF Acquire, socketVars, deviceVars
<1>4. CASE Cleanup(c)
  <2>1. UNCHANGED <<dropped, req, resp, backlog, path>> BY <1>4 DEF Cleanup
  <2>2. /\ link' = link \/ (link[c] = "up" /\ link' = [link EXCEPT ![c] = "closed"])
        /\ UNCHANGED deviceVars \/ (RmFB(c) /\ authed' \in {authed, authed \ {c}})
    BY <1>4, CleanupCases DEF CloseDevice
  <2> QED BY <1>1, <2>1, <2>2
<1>5. CASE Killed(c) BY <1>1, <1>5 DEF Killed, CloseDevice
<1>6. CASE Send(c) /\ ~Killed(c)
  BY <1>1, <1>6 DEF Send, ShowCmd, StopCmd, Commands
<1>7. CASE Receive(c) BY <1>1, <1>7 DEF Receive, deviceVars
<1>8. CASE Timeout(c) \/ Key(c) BY <1>1, <1>8 DEF Timeout, Key, protoVars, socketVars
<1> QED BY <1>2, <1>3, <1>4, <1>5, <1>6, <1>7, <1>8 DEF ClientStep, Client, Kill

LEMMA PlaceStays ==
  ASSUME NEW c, PlaceInv(c), UNCHANGED <<backlog, dropped, slot>>,
         link'[c] = "new" <=> link[c] = "new"
  PROVE  PlaceInv(c)'
BY DEF PlaceInv, Used, Slots

LEMMA ClientRounds ==
  ASSUME RoundsInv, NEW c \in Clients, ClientStep(c)
  PROVE  RoundsInv'
<1>1. OwnInv' BY OwnInvNext DEF RoundsInv, Next
<1>2. UNCHANGED <<serverVars, dropped, path>> /\ Used' = Used /\ pc' = pc /\ slot' = slot
  BY ClientCases DEF RoundsInv, serverVars, Used, Slots
<1>3. CASE /\ link[c] = "new" /\ Listening
           /\ link' = [link EXCEPT ![c] = "up"] /\ backlog' = Append(backlog, c)
           /\ UNCHANGED <<req, resp, deviceVars>>
  <2>0. backlog \in Seq(Clients) /\ link \in [Clients -> {"new", "up", "closed"}]
    BY DEF RoundsInv, ServerPart, ProtoTypeOK
  <2>1. c \notin ToSet(backlog) \cup dropped /\ ~\E j \in Used : slot[j] = c
    BY <1>3 DEF RoundsInv, PlaceInv
  <2>2. /\ backlog' \in Seq(Clients) /\ ToSet(backlog') = ToSet(backlog) \cup {c} /\ backlog' # <<>>
        /\ \A m, n \in 1..Len(backlog') : backlog'[m] = backlog'[n] => m = n
    BY <1>3, <2>0, <2>1, Enqueue DEF RoundsInv, ServerPart, SlotsInv
  <2>3. ProtoTypeOK'
    BY <1>2, <1>3, <2>2 DEF RoundsInv, ServerPart, ProtoTypeOK, deviceVars
  <2>4. ServerTypeOK'
    BY <1>2 DEF RoundsInv, ServerPart, ServerTypeOK, serverVars, Slots
  <2>5. SlotsInv'
    BY <1>2, <1>3, <2>2 DEF RoundsInv, ServerPart, SlotsInv, Listening, Gone
  <2>6. \A d \in Clients : Readable(d) => Readable(d)'
    BY <1>3, <2>0 DEF Readable
  <2>7. RoundInv'
    BY <1>2, <2>2, <2>6, UsedIs DEF RoundsInv, ServerPart, RoundInv, serverVars
  <2>8. ASSUME NEW d \in Clients PROVE PlaceInv(d)'
    <3>1. PlaceInv(d) BY DEF RoundsInv
    <3>2. link'[d] = (IF d = c THEN "up" ELSE link[d]) /\ dropped' = dropped
      BY <1>2, <1>3, <2>0
    <3> QED BY <1>2, <2>1, <2>2, <3>1, <3>2 DEF PlaceInv
  <2> QED BY <1>1, <2>3, <2>4, <2>5, <2>7, <2>8 DEF RoundsInv, ServerPart
<1>4. CASE /\ UNCHANGED backlog
           /\ link' = link \/ (link[c] = "up" /\ link' = [link EXCEPT ![c] = "closed"])
           /\ req' = req \/ \E cmd \in Commands : req' = [req EXCEPT ![c] = cmd]
           /\ resp' = resp \/ resp' = [resp EXCEPT ![c] = "none"]
           /\ \/ UNCHANGED deviceVars
              \/ RmFB(c) /\ authed' \in {authed, authed \ {c}}
              \/ fbs' = fbs \cup {c} /\ UNCHANGED <<authed, crtc, plane>>
  <2>0. ProtoTypeOK BY DEF RoundsInv, ServerPart
  <2>1. ProtoTypeOK'
    <3>1. fbs' \subseteq Clients /\ authed' \subseteq Clients
          /\ crtc' \in Clients \cup {"console", "off"} /\ plane' \in Clients \cup {"off"}
      BY <1>4, <2>0 DEF ProtoTypeOK, RmFB, deviceVars
    <3>2. /\ link' \in [Clients -> {"new", "up", "closed"}]
          /\ req' \in [Clients -> Commands \cup {"none"}]
          /\ resp' \in [Clients -> {"none", "DRM_OK", "DRM_ERROR"}]
      BY <1>4, <2>0 DEF ProtoTypeOK
    <3> QED BY <1>2, <1>4, <2>0, <3>1, <3>2 DEF ProtoTypeOK
  <2>2. ServerTypeOK'
    BY <1>2 DEF RoundsInv, ServerPart, ServerTypeOK, serverVars, Slots
  <2>3. SlotsInv' BY <1>2, <1>4 DEF RoundsInv, ServerPart, SlotsInv
  <2>4. \A d \in Clients : /\ Readable(d) => Readable(d)'
                           /\ link'[d] = "new" <=> link[d] = "new"
    BY <1>4, <2>0 DEF Readable, ProtoTypeOK, Commands
  <2>5. RoundInv'
    BY <1>2, <1>4, <2>4, UsedIs DEF RoundsInv, ServerPart, RoundInv, serverVars
  <2>6. \A d \in Clients : PlaceInv(d)'
    BY <1>2, <1>4, <2>4, PlaceStays DEF RoundsInv
  <2> QED BY <1>1, <2>1, <2>2, <2>3, <2>5, <2>6 DEF RoundsInv, ServerPart
<1> QED BY <1>3, <1>4, ClientCases DEF RoundsInv

-----------------------------------------------------------------------------
(* The server's rounds: its own steps *)

\* Steps of the server that move no connection.
LEMMA QuietPlaces ==
  ASSUME RoundsInv, UNCHANGED <<slot, backlog, dropped, link, req>>,
         pc' \in Gone \cup {"bind"} => pc \in Gone \cup {"bind"}
  PROVE  /\ Used' = Used /\ SlotsInv' /\ \A c \in Clients : PlaceInv(c)' /\ Readable(c)' = Readable(c)
BY PlaceStays DEF RoundsInv, ServerPart, SlotsInv, Used, Slots, Readable

LEMMA PollRounds ==
  ASSUME RoundsInv, Poll
  PROVE  ServerPart' /\ \A c \in Clients : PlaceInv(c)'
<1> USE DEF RoundsInv, ServerPart
<1> DEFINE ready == {j \in Used : Readable(slot[j])}
           pending == IF backlog # <<>> THEN 1 ELSE 0
<1>1. /\ pc = "poll" /\ revents' = ready /\ i' = 0
      /\ pc' = IF pending = 1 THEN "accept" ELSE "scan"
      /\ Cardinality(ready) + pending > 0
      /\ UNCHANGED <<protoVars, running, slot, info, ret>>
      /\ UNCHANGED <<slot, backlog, dropped, link, req>>
  BY DEF Poll, protoVars, socketVars
<1>2. PICK behind \in {0, 1} : rc' = Cardinality(ready) + pending + behind
  BY DEF Poll
<1>3. Cardinality(ready) \in Nat /\ Cardinality(ready) <= MAXCLIENTS
  <2>1. IsFiniteSet(Slots) /\ Cardinality(Slots) = MAXCLIENTS
    BY FS_Interval, Strangers DEF Slots
  <2>2. ready \subseteq Slots BY DEF Used
  <2> QED BY <2>1, <2>2, FS_Subset, FS_CardinalityType
<1>4. pc' \in {"accept", "scan"} /\ (pc' = "accept" => backlog' # <<>>)
  BY <1>1
<1>5. /\ Used' = Used /\ SlotsInv' /\ \A c \in Clients : PlaceInv(c)' /\ Readable(c)' = Readable(c)
  BY <1>1, <1>4, QuietPlaces DEF Gone
<1>6. pending \in {0, 1} OBVIOUS
<1>7. ready \subseteq Used /\ \A j \in ready : Readable(slot[j]) OBVIOUS
<1> HIDE DEF ready, pending
<1>8. rc' \in 0..(MAXCLIENTS + 2) /\ rc' >= 1
  <2>1. rc' = Cardinality(ready) + pending + behind BY <1>2
  <2>2. MAXCLIENTS \in Nat BY Strangers
  <2> QED BY <1>1, <1>3, <1>6, <2>1, <2>2
<1>9. ProtoTypeOK' BY <1>1 DEF ProtoTypeOK, protoVars, socketVars, deviceVars
<1>10. ServerTypeOK'
  BY <1>1, <1>4, <1>7, <1>8, UsedIs, Strangers DEF ServerTypeOK, Slots
<1>11. RoundInv'
  BY <1>1, <1>4, <1>5, <1>7, <1>8, UsedIs DEF RoundInv, Work
<1> QED BY <1>5, <1>9, <1>10, <1>11

LEMMA ScanRounds ==
  ASSUME RoundsInv, Scan
  PROVE  ServerPart' /\ \A c \in Clients : PlaceInv(c)'
<1> USE DEF RoundsInv, ServerPart
<1>1. /\ pc = "scan" /\ UNCHANGED <<protoVars, running, slot, info, ret>>
      /\ UNCHANGED <<slot, backlog, dropped, link, req>>
  BY DEF Scan, protoVars, socketVars
<1>2. ProtoTypeOK' BY <1>1 DEF ProtoTypeOK, protoVars, socketVars, deviceVars
<1>3. pc' \in {"check", "read"} BY DEF Scan, NextRound
<1>4. /\ Used' = Used /\ SlotsInv' /\ \A c \in Clients : PlaceInv(c)' /\ Readable(c)' = Readable(c)
  BY <1>1, <1>3, QuietPlaces DEF Gone
<1>5. CASE NextRound
  <2>1. ServerTypeOK' BY <1>1, <1>5, Strangers DEF ServerTypeOK, NextRound, Slots
  <2>2. RoundInv' BY <1>5 DEF RoundInv, NextRound, Work
  <2> QED BY <1>2, <1>4, <2>1, <2>2
<1>6. CASE Due # {} /\ pc' = "read" /\ i' = Min(Due) /\ UNCHANGED <<revents, rc>>
  <2>1. Due \subseteq Nat BY UsedIs DEF Due
  <2>2. i' \in Due BY <1>6, <2>1, LeastNatural
  <2>3. i' \in Used \cap revents /\ i' >= i BY <2>2 DEF Due
  <2>4. i' \in Nat /\ i' < MAXCLIENTS /\ i \in Nat BY <2>3, UsedIs DEF ServerTypeOK
  <2>5. ServerTypeOK' BY <1>1, <1>6, <2>4, Strangers DEF ServerTypeOK, Slots
  <2>6. \A j \in Used \cap revents : j > i' => j >= i
    BY <2>3, <2>4, UsedIs
  <2>7. RoundInv'
    BY <1>1, <1>4, <1>6, <2>3, <2>6, UsedIs DEF RoundInv, Work
  <2> QED BY <1>2, <1>4, <2>5, <2>7
<1> QED BY <1>5, <1>6 DEF Scan

\* The head of the loop, the handlers and the two ends of the process.
LEMMA PlainRounds ==
  ASSUME RoundsInv, Bind \/ Check \/ Interrupted \/ SigInt \/ Restart \/ Request
  PROVE  ServerPart' /\ \A c \in Clients : PlaceInv(c)'
<1> USE DEF RoundsInv, ServerPart
<1>1. UNCHANGED <<slot, backlog, dropped, link, req, resp>>
  BY DEF Bind, Check, Interrupted, SigInt, Restart, Request, Auth, CrtcSave, CrtcSet, PlaneSet,
     CrtcStop, PlaneStop, sameLoop, protoVars, socketVars
<1>2. /\ pc' \in Gone \cup {"bind"} => pc \in Gone \cup {"bind"}
      /\ pc' \in {"accept", "scan", "read"} => pc' = pc
  BY DEF Bind, Check, Interrupted, SigInt, Restart, Request, Auth, CrtcSave, CrtcSet, PlaneSet,
     CrtcStop, PlaneStop, Result, Gone
<1>3. /\ Used' = Used /\ SlotsInv' /\ \A c \in Clients : PlaceInv(c)' /\ Readable(c)' = Readable(c)
  BY <1>1, <1>2, QuietPlaces
<1>4. CASE Bind \/ Check \/ Interrupted \/ SigInt \/ Restart
  <2>1. ProtoTypeOK'
    BY <1>4 DEF Bind, Check, Interrupted, SigInt, Restart, ProtoTypeOK, protoVars, socketVars, deviceVars
  <2>2. ServerTypeOK'
    <3>1. CASE Restart
      <4>1. pc' = "bind" /\ running' = TRUE /\ revents' = {} /\ rc' = 0 /\ i' = 0 /\ ret' = 0
        BY <3>1 DEF Restart
      <4>2. info' \in [Slots -> [owner : Clients \cup {NoClient},
                                saved : Clients \cup {"console", "off", "null", "junk"}]]
        BY <3>1 DEF Restart
      <4> QED BY <1>1, <4>1, <4>2, Strangers DEF ServerTypeOK, Slots
    <3>2. CASE Bind \/ Check \/ Interrupted \/ SigInt
      <4>1. UNCHANGED <<slot, revents, rc, i, info, ret>>
        BY <3>2 DEF Bind, Check, Interrupted, SigInt
      <4>2. running' \in BOOLEAN /\ pc' \in {pc, "bind_failed", "poll", "close"}
        BY <3>2 DEF Bind, Check, Interrupted, SigInt, ServerTypeOK
      <4> QED BY <4>1, <4>2 DEF ServerTypeOK, Slots
    <3> QED BY <1>4, <3>1, <3>2
  <2>3. RoundInv'
    <3>1. CASE SigInt
      BY <1>3, <3>1, UsedIs DEF SigInt, RoundInv, protoVars, socketVars
    <3>2. CASE Bind \/ Check \/ Interrupted \/ Restart
      BY <3>2 DEF Bind, Check, Interrupted, Restart, RoundInv, Work
    <3> QED BY <1>4, <3>1, <3>2
  <2> QED BY <1>3, <2>1, <2>2, <2>3
<1>5. CASE Request
  <2>1. /\ pc \in Work \ {"reply"} /\ pc' \in Work /\ UNCHANGED <<socketVars, running, slot, revents, rc, i>>
    BY <1>5 DEF Request, Auth, CrtcSave, CrtcSet, PlaneSet, CrtcStop, PlaneStop, sameLoop, Result, Work
  <2>2. i \in Used /\ slot[i] \in Clients BY <2>1, UsedIs DEF RoundInv, Work
  <2>3. ProtoTypeOK'
    <3>1. fbs' \subseteq Clients /\ authed' \subseteq Clients
          /\ crtc' \in Clients \cup {"console", "off"} /\ plane' \in Clients \cup {"off"}
      BY <1>5, <2>2
      DEF ProtoTypeOK, Request, Auth, CrtcSave, CrtcSet, PlaneSet, CrtcStop, PlaneStop, CanShow, deviceVars
    <3> QED BY <2>1, <3>1 DEF ProtoTypeOK, socketVars
  <2>4. ServerTypeOK'
    <3>1. ret' \in {0, 1}
      BY <1>5 DEF ServerTypeOK, Request, Auth, CrtcSave, CrtcSet, PlaneSet, CrtcStop, PlaneStop, Result
    <3>2. info' \in [Slots -> [owner : Clients \cup {NoClient},
                               saved : Clients \cup {"console", "off", "null", "junk"}]]
      <4>1. i \in Slots /\ info[i] \in [owner : Clients \cup {NoClient},
                                        saved : Clients \cup {"console", "off", "null", "junk"}]
        BY <2>2, UsedIs DEF ServerTypeOK
      <4>2. \/ info' = info
            \/ info' = [info EXCEPT ![i] = [owner |-> slot[i], saved |-> "null"]]
            \/ info' = [info EXCEPT ![i].saved = crtc]
        BY <1>5 DEF Request, Auth, CrtcSave, CrtcSet, PlaneSet, CrtcStop, PlaneStop
      <4> QED BY <2>2, <4>1, <4>2 DEF ServerTypeOK, ProtoTypeOK
    <3> QED BY <2>1, <3>1, <3>2 DEF ServerTypeOK, Work, Slots
  <2>5. RoundInv' BY <1>1, <1>3, <2>1, <2>2, UsedIs DEF RoundInv, Work
  <2> QED BY <1>3, <2>3, <2>4, <2>5
<1> QED BY <1>4, <1>5

\* A round that goes on has something left to count down, and the slots to come
\* to are those it was to come to before.
LEMMA CountDownCases ==
  ASSUME NEW next, CountDown(next), ServerTypeOK, rc >= 1
  PROVE  \/ pc' = "check" /\ rc' = 0 /\ i' = 0 /\ revents' = {}
         \/ pc' = "scan" /\ rc' \in 0..(MAXCLIENTS + 2) /\ rc' >= 1 /\ i' = next /\ UNCHANGED revents
BY Strangers DEF CountDown, NextRound, ServerTypeOK

LEMMA AcceptRounds ==
  ASSUME RoundsInv, Accept
  PROVE  ServerPart' /\ \A c \in Clients : PlaceInv(c)'
<1> USE DEF RoundsInv, ServerPart
<1> DEFINE c == Head(backlog)
           free == Slots \ Used
<1>1. /\ pc = "accept" /\ backlog # <<>> /\ rc >= 1 /\ revents \subseteq Used
      /\ backlog' = Tail(backlog)
      /\ UNCHANGED <<link, req, resp, path, deviceVars, running, info, ret>>
  BY DEF Accept, RoundInv
<1>2. /\ c \in ToSet(backlog) /\ ToSet(backlog') = ToSet(backlog) \ {c} /\ c \in Clients
      /\ backlog' \in Seq(Clients)
      /\ \A m, n \in 1..Len(backlog') : backlog'[m] = backlog'[n] => m = n
  BY <1>1, Dequeue DEF SlotsInv, ProtoTypeOK
<1>3. /\ ~\E j \in Used : slot[j] = c
      /\ c \notin dropped /\ link[c] # "new"
  BY <1>2 DEF PlaceInv
<1>4. /\ pc' \in {"check", "scan"}
      /\ \/ pc' = "check" /\ rc' = 0 /\ i' = 0 /\ revents' = {}
         \/ pc' = "scan" /\ rc' \in 0..(MAXCLIENTS + 2) /\ rc' >= 1 /\ i' = i /\ UNCHANGED revents
  BY <1>1, CountDownCases DEF Accept
<1>5. \A j \in Slots : j \in Nat BY UsedIs
<1>6. /\ dropped' \subseteq Clients /\ slot' \in [Slots -> Clients \cup {NoClient}]
      /\ \A j \in Used : j \in Used' /\ slot'[j] = slot[j]
      /\ \A j, k \in Used' : slot'[j] = slot'[k] => j = k
      /\ \A d \in Clients : PlaceInv(d)'
  <2>1. CASE free = {}
    <3>1. dropped' = dropped \cup {c} /\ slot' = slot BY <2>1 DEF Accept
    <3>2. Used' = Used BY <3>1 DEF Used, Slots
    <3>3. ASSUME NEW d \in Clients PROVE PlaceInv(d)'
      <4>1. PlaceInv(d) OBVIOUS
      <4>2. link' = link BY <1>1
      <4> QED BY ONLY <1>2, <1>3, <3>1, <3>2, <4>1, <4>2 DEF PlaceInv
    <3> QED BY <1>2, <3>1, <3>2, <3>3 DEF ProtoTypeOK, ServerTypeOK, SlotsInv
  <2>2. CASE free # {}
    <3> DEFINE k == Min(free)
    <3>1. dropped' = dropped /\ slot' = [slot EXCEPT ![k] = c] BY <2>2 DEF Accept
    <3>2. free \subseteq Nat BY <1>5
    <3>3. k \in Slots \ Used BY <2>2, <3>2, LeastNatural
    <3> HIDE DEF k, c, free
    <3>4. Used' = Used \cup {k} /\ slot'[k] = c /\ \A j \in Used : slot'[j] = slot[j]
      BY <1>2, <3>1, <3>3, Strangers DEF Used, Slots, ServerTypeOK
    <3>5. ASSUME NEW d \in Clients PROVE PlaceInv(d)'
      <4>1. PlaceInv(d) OBVIOUS
      <4>2. link' = link BY <1>1
      <4> QED BY ONLY <1>2, <1>3, <3>1, <3>4, <4>1, <4>2 DEF PlaceInv
    <3>6. \A j, m \in Used' : slot'[j] = slot'[m] => j = m
      BY <1>3, <3>4 DEF SlotsInv
    <3>7. dropped' \subseteq Clients /\ slot' \in [Slots -> Clients \cup {NoClient}]
      BY <1>2, <3>1 DEF ProtoTypeOK, ServerTypeOK
    <3> QED BY <3>4, <3>5, <3>6, <3>7
  <2> QED BY <2>1, <2>2
<1>7. ProtoTypeOK' BY <1>1, <1>2, <1>6 DEF ProtoTypeOK, deviceVars
<1>8. ServerTypeOK'
  <2>1. rc' \in 0..(MAXCLIENTS + 2) /\ i' \in 0..MAXCLIENTS /\ revents' \subseteq Slots
    BY <1>4, Strangers DEF ServerTypeOK
  <2> QED BY <1>1, <1>4, <1>6, <2>1 DEF ServerTypeOK, Slots
<1>9. SlotsInv' BY <1>2, <1>4, <1>6 DEF SlotsInv, Gone
<1>10. RoundInv'
  <2>1. \A d \in Clients : Readable(d)' = Readable(d) BY <1>1 DEF Readable
  <2>2. \A j \in Used' \cap revents : j \in Used /\ slot'[j] = slot[j] /\ slot[j] \in Clients
    BY <1>1, <1>6, UsedIs
  <2>3. ASSUME NEW j \in Used' \cap revents, j >= i PROVE Readable(slot[j])'
    <3>1. Readable(slot[j]) BY <1>1, <2>2, <2>3 DEF RoundInv
    <3>2. req' = req /\ link' = link BY <1>1
    <3> QED BY ONLY <2>2, <3>1, <3>2 DEF Readable
  <2> QED BY <1>4, <2>3 DEF RoundInv, Work
<1> QED BY <1>6, <1>7, <1>8, <1>9, <1>10

LEMMA ReadRounds ==
  ASSUME RoundsInv, Read
  PROVE  ServerPart' /\ \A c \in Clients : PlaceInv(c)'
<1> USE DEF RoundsInv, ServerPart
<1> DEFINE c == slot[i]
<1>1. /\ pc = "read" /\ rc >= 1 /\ i \in Used /\ i \in Slots /\ i \in Nat /\ i < MAXCLIENTS /\ c \in Clients
      /\ UNCHANGED <<link, resp, backlog, path, deviceVars, running, revents, rc, info, ret>>
  BY UsedIs DEF Read, RoundInv
<1>2. \A j \in Used : j # i => slot[j] # c BY <1>1 DEF SlotsInv
<1>3. \A j \in Used \cap revents : j > i => Readable(slot[j])
  BY <1>1 DEF RoundInv
<1>4. CASE req[c] # "none"
  <2>1. /\ req' = [req EXCEPT ![c] = "none"] /\ pc' = Handler(req[c])
        /\ UNCHANGED <<dropped, slot, i>>
    BY <1>4 DEF Read
  <2>2. pc' \in Work \ {"reply"} BY <1>1, <1>4, <2>1 DEF ProtoTypeOK, Commands, Handler, Work
  <2>3. Used' = Used BY <2>1 DEF Used, Slots
  <2>4. SlotsInv' /\ \A d \in Clients : PlaceInv(d)'
    BY <1>1, <2>1, <2>2, <2>3, PlaceStays DEF SlotsInv, Gone, Work
  <2>5. ProtoTypeOK' BY <1>1, <2>1 DEF ProtoTypeOK, deviceVars
  <2>6. ServerTypeOK' BY <1>1, <2>1, <2>2 DEF ServerTypeOK, Slots, Work
  <2>7. ASSUME NEW j \in Used \cap revents, j > i PROVE Readable(slot[j])'
    <3>1. slot[j] # c /\ slot[j] \in Clients BY <1>1, <1>2, <2>7, UsedIs
    <3>2. Readable(slot[j]) BY <1>3, <2>7
    <3>3. req'[slot[j]] = req[slot[j]] /\ link' = link /\ slot' = slot
      BY <1>1, <2>1, <3>1 DEF ProtoTypeOK
    <3> QED BY ONLY <3>2, <3>3 DEF Readable
  <2>9. RoundInv' BY <1>1, <2>1, <2>2, <2>3, <2>7 DEF RoundInv, Work
  <2> QED BY <2>4, <2>5, <2>6, <2>9
<1>5. CASE req[c] = "none"
  <2>1. /\ dropped' = dropped \cup {c} /\ slot' = [slot EXCEPT ![i] = NoClient]
        /\ i' = i + 1 /\ pc' = "scan" /\ UNCHANGED req
    BY <1>5 DEF Read, CloseSlot
  <2>2. Used' = Used \ {i} /\ \A j \in Used' : slot'[j] = slot[j]
    BY <1>1, <2>1 DEF Used, Slots, ServerTypeOK
  <2>3. link[c] # "new" /\ c \notin ToSet(backlog) BY <1>1 DEF PlaceInv
  <2>4. ASSUME NEW d \in Clients PROVE PlaceInv(d)'
    <3>1. PlaceInv(d) OBVIOUS
    <3>2. link' = link /\ backlog' = backlog BY <1>1
    <3> HIDE DEF c
    <3> QED BY ONLY <1>1, <1>2, <2>1, <2>2, <2>3, <3>1, <3>2 DEF PlaceInv, c
  <2>5. SlotsInv' BY <1>1, <2>1, <2>2 DEF SlotsInv, Gone
  <2>6. ProtoTypeOK' BY <1>1, <2>1 DEF ProtoTypeOK, deviceVars
  <2>7. ServerTypeOK'
    <3>1. i' \in 0..MAXCLIENTS BY <1>1, <2>1, Strangers
    <3> QED BY <1>1, <2>1, <3>1 DEF ServerTypeOK, Slots
  <2>8. ASSUME NEW j \in Used' \cap revents, j >= i' PROVE Readable(slot[j])'
    <3>1. j \in Used /\ j > i /\ slot'[j] = slot[j] BY <1>1, <2>1, <2>2, <2>8, UsedIs
    <3>2. Readable(slot[j]) BY <1>3, <2>8, <3>1
    <3>3. req' = req /\ link' = link BY <1>1, <2>1
    <3> QED BY ONLY <3>1, <3>2, <3>3 DEF Readable
  <2>9. RoundInv' BY <1>1, <2>1, <2>8 DEF RoundInv, Work
  <2> QED BY <2>4, <2>5, <2>6, <2>7, <2>9
<1> QED BY <1>4, <1>5

\* A process that ends closes every connection it has.
LEMMA EndsPlaces ==
  ASSUME RoundsInv, NEW how, ProcessEnds(how), link' = link
  PROVE  /\ Used' = {} /\ backlog' = <<>> /\ backlog' \in Seq(Clients) /\ dropped' \subseteq Clients
         /\ slot' \in [Slots -> Clients \cup {NoClient}]
         /\ SlotsInv' /\ \A c \in Clients : PlaceInv(c)' /\ (link[c] # "new" => c \in dropped')
<1> USE DEF RoundsInv, ServerPart, ProcessEnds
<1>1. /\ Used' = {} /\ backlog' = <<>> /\ backlog' \in Seq(Clients)
      /\ slot' \in [Slots -> Clients \cup {NoClient}]
  BY DEF Used, Slots
<1>2. ToSet(backlog') = {} BY DEF ToSet
<1>3. ToSet(backlog) \subseteq Clients BY DEF ToSet, ProtoTypeOK
<1>4. dropped' \subseteq Clients BY <1>3, UsedIs DEF ProtoTypeOK
<1>5. SlotsInv' BY <1>1 DEF SlotsInv
<1>6. ASSUME NEW c \in Clients PROVE PlaceInv(c)' /\ (link[c] # "new" => c \in dropped')
  <2>1. PlaceInv(c) OBVIOUS
  <2>2. c \in dropped' <=> c \in dropped \cup ToSet(backlog) \/ \E j \in Used : slot[j] = c
    OBVIOUS
  <2> QED BY ONLY <1>1, <1>2, <2>1, <2>2, link' = link DEF PlaceInv
<1> QED BY <1>1, <1>4, <1>5, <1>6

LEMMA ReplyRounds ==
  ASSUME RoundsInv, Reply
  PROVE  ServerPart' /\ \A c \in Clients : PlaceInv(c)'
<1> USE DEF RoundsInv, ServerPart
<1>1. /\ pc = "reply" /\ rc >= 1 /\ i \in Used /\ i \in Nat /\ i < MAXCLIENTS /\ slot[i] \in Clients
      /\ ret' = 0 /\ UNCHANGED <<link, req, path, deviceVars, running, info>>
  BY UsedIs DEF Reply, RoundInv, Work
<1>2. CASE ProcessEnds("sigpipe") /\ UNCHANGED <<resp, rc, i, revents>>
  <2>1. pc' = "sigpipe" BY <1>2 DEF ProcessEnds
  <2>2. ProtoTypeOK' BY <1>1, <1>2, EndsPlaces DEF ProtoTypeOK, deviceVars
  <2>3. ServerTypeOK' BY <1>1, <1>2, <2>1, EndsPlaces DEF ServerTypeOK, Slots
  <2>4. RoundInv' BY <2>1 DEF RoundInv, Work
  <2> QED BY <1>1, <1>2, <2>2, <2>3, <2>4, EndsPlaces
<1>3. CASE /\ resp' = [resp EXCEPT ![slot[i]] = IF ret = 0 THEN "DRM_OK" ELSE "DRM_ERROR"]
           /\ CountDown(i + 1)
           /\ UNCHANGED <<dropped, slot, backlog>>
  <2>1. \/ pc' = "check" /\ rc' = 0 /\ i' = 0 /\ revents' = {}
        \/ pc' = "scan" /\ rc' \in 0..(MAXCLIENTS + 2) /\ rc' >= 1 /\ i' = i + 1 /\ UNCHANGED revents
    BY <1>1, <1>3, CountDownCases
  <2>2. /\ Used' = Used /\ SlotsInv' /\ \A c \in Clients : PlaceInv(c)' /\ Readable(c)' = Readable(c)
    BY <1>1, <1>3, <2>1, QuietPlaces DEF Gone
  <2>3. ProtoTypeOK' BY <1>1, <1>3 DEF ProtoTypeOK, deviceVars
  <2>4. ServerTypeOK'
    <3>1. rc' \in 0..(MAXCLIENTS + 2) /\ i' \in 0..MAXCLIENTS /\ revents' \subseteq Slots
      BY <1>1, <2>1, Strangers DEF ServerTypeOK
    <3> QED BY <1>1, <1>3, <2>1, <3>1 DEF ServerTypeOK, Slots
  <2>5. RoundInv'
    <3>1. CASE pc' = "check" BY <2>1, <3>1 DEF RoundInv, Work
    <3>2. CASE pc' = "scan"
      <4>1. ASSUME NEW j \in Used' \cap revents, j >= i + 1 PROVE Readable(slot[j])'
        <5>1. j \in Used /\ j > i /\ slot' = slot BY <1>1, <1>3, <2>2, <4>1, UsedIs
        <5>2. Readable(slot[j]) BY <1>1, <4>1, <5>1 DEF RoundInv, Work
        <5>3. req' = req /\ link' = link BY <1>1
        <5> QED BY ONLY <5>1, <5>2, <5>3 DEF Readable
      <4> QED BY <2>1, <3>2, <4>1 DEF RoundInv, Work
    <3> QED BY <2>1, <3>1, <3>2
  <2> QED BY <2>2, <2>3, <2>4, <2>5
<1> QED BY <1>2, <1>3 DEF Reply

LEMMA LeavingRounds ==
  ASSUME RoundsInv, CloseListener \/ Unlink
  PROVE  ServerPart' /\ \A c \in Clients : PlaceInv(c)'
<1> USE DEF RoundsInv, ServerPart
<1>1. CASE CloseListener
  <2>1. /\ dropped' = dropped \cup ToSet(backlog) /\ backlog' = <<>> /\ pc' = "unlink"
        /\ UNCHANGED <<link, req, resp, path, deviceVars, running, slot, revents, rc, i, info, ret>>
    BY <1>1 DEF CloseListener
  <2>2. ToSet(backlog) \subseteq Clients BY DEF ToSet, ProtoTypeOK
  <2>3. Used' = Used /\ ToSet(backlog') = {} /\ backlog' \in Seq(Clients)
    BY <2>1 DEF Used, Slots, ToSet
  <2>4. ASSUME NEW c \in Clients PROVE PlaceInv(c)'
    <3>1. PlaceInv(c) OBVIOUS
    <3> QED BY ONLY <2>1, <2>3, <3>1 DEF PlaceInv
  <2>5. SlotsInv' BY <2>1, <2>3 DEF SlotsInv, Gone
  <2>6. ProtoTypeOK' BY <2>1, <2>2, <2>3 DEF ProtoTypeOK, deviceVars
  <2>7. ServerTypeOK' BY <2>1 DEF ServerTypeOK, Slots
  <2>8. RoundInv' BY <2>1 DEF RoundInv, Work
  <2> QED BY <2>4, <2>5, <2>6, <2>7, <2>8
<1>2. CASE Unlink
  <2>1. /\ ProcessEnds("exit") /\ pc' = "exit" /\ path' = FALSE
        /\ UNCHANGED <<link, req, resp, deviceVars, running, revents, rc, i, info, ret>>
    BY <1>2 DEF Unlink, ProcessEnds
  <2>2. ProtoTypeOK' BY <2>1, EndsPlaces DEF ProtoTypeOK, deviceVars
  <2>3. ServerTypeOK' BY <2>1, EndsPlaces DEF ServerTypeOK, Slots
  <2>4. RoundInv' BY <2>1 DEF RoundInv, Work
  <2> QED BY <2>1, <2>2, <2>3, <2>4, EndsPlaces
<1> QED BY <1>1, <1>2

LEMMA RoundsNext == RoundsInv /\ [Next]_vars => RoundsInv'
<1> SUFFICES ASSUME RoundsInv, [Next]_vars PROVE RoundsInv'
  OBVIOUS
<1>1. OwnInv' BY OwnInvNext DEF RoundsInv
<1>2. CASE ServerStep
  <2>1. ServerPart' /\ \A c \in Clients : PlaceInv(c)'
    BY <1>2, PollRounds, ScanRounds, PlainRounds, AcceptRounds, ReadRounds, ReplyRounds, LeavingRounds
    DEF ServerStep, Server
  <2> QED BY <1>1, <2>1 DEF RoundsInv
<1>3. CASE \E c \in Clients : ClientStep(c) BY <1>3, ClientRounds
<1>4. CASE UNCHANGED vars
  <2>1. UNCHANGED <<slot, backlog, dropped, link, req, pc>>
    BY <1>4 DEF vars, protoVars, socketVars, serverVars
  <2>2. /\ Used' = Used /\ SlotsInv' /\ \A c \in Clients : PlaceInv(c)' /\ Readable(c)' = Readable(c)
    BY <2>1, QuietPlaces
  <2>3. (ProtoTypeOK /\ ServerTypeOK)'
    BY <1>4
    DEF RoundsInv, ServerPart, vars, protoVars, socketVars, deviceVars, serverVars, ProtoTypeOK,
        ServerTypeOK, Slots
  <2>4. RoundInv'
    BY <1>4, <2>2, UsedIs DEF RoundsInv, ServerPart, vars, protoVars, socketVars, serverVars, RoundInv
  <2> QED BY <1>1, <2>2, <2>3, <2>4 DEF RoundsInv, ServerPart
<1> QED BY <1>2, <1>3, <1>4 DEF Next

LEMMA Init_RoundsInv == Init => RoundsInv
<1> SUFFICES ASSUME Init PROVE RoundsInv
  OBVIOUS
<1> USE DEF Init, ProtoInit, ServerInit
<1>1. OwnInv BY Init_OwnInv
<1>2. ProtoTypeOK
  <2>1. backlog \in Seq(Clients) BY EmptySeq
  <2>2. /\ link \in [Clients -> {"new", "up", "closed"}]
        /\ req \in [Clients -> Commands \cup {"none"}]
        /\ resp \in [Clients -> {"none", "DRM_OK", "DRM_ERROR"}]
    OBVIOUS
  <2> QED BY <2>1, <2>2 DEF ProtoTypeOK
<1>3. ServerTypeOK BY Strangers DEF ServerTypeOK, Slots
<1>4. Used = {} /\ ToSet(backlog) = {} BY DEF Used, ToSet
<1>5. SlotsInv BY <1>4 DEF SlotsInv
<1>6. RoundInv BY DEF RoundInv, Work
<1>7. \A c \in Clients : PlaceInv(c) BY <1>4 DEF PlaceInv
<1> QED BY <1>1, <1>2, <1>3, <1>5, <1>6, <1>7 DEF RoundsInv, ServerPart

LEMMA AlwaysRounds == Spec => []RoundsInv
BY Init_RoundsInv, RoundsNext, PTL DEF Spec

\* The server of a single thread never blocks in a read: when it reads from slot i,
\* the client there has sent a request or closed, although poll() was asked before
\* other clients were served, one was accepted, and one entry too many was counted.
THEOREM NeverBlocked == Spec => []ReadNeverBlocks
<1>1. RoundsInv => ReadNeverBlocks
  BY DEF RoundsInv, ServerPart, OwnInv, OwnTypeOK, TypeOK, RoundInv, ReadNeverBlocks
<1> QED BY <1>1, AlwaysRounds, PTL

-----------------------------------------------------------------------------
(* Requests and responses *)

\* The client waits for the answer to cmd, and the server is at one of these stages.
Pending(c, cmd, stages) == req[c] \in {"none", cmd} /\ (Working(c) => pc \in stages)

\* One request or response is under way, that of the place where the client is,
\* unless it did not wait for it.
SyncInv(c) ==
  /\ req[c] # "none" => resp[c] = "none" /\ ~Working(c)
  /\ Working(c) => resp[c] = "none"
  /\ at[c] \notin Waits \cup LabelNames \cup {"done"} \/ result[c] = "ok" =>
       req[c] = "none" /\ resp[c] = "none" /\ ~Working(c)
  /\ at[c] = "wait_auth" => Pending(c, "auth", {"auth", "reply"})
  /\ at[c] = "wait_show" =>
       Pending(c, ShowCmd(c), IF c \in CrtcClients THEN {"crtc_save", "crtc_set", "reply"}
                                                   ELSE {"plane_set", "reply"})
  /\ at[c] = "wait_stop" =>
       Pending(c, StopCmd(c), IF c \in CrtcClients THEN {"crtc_stop", "reply"}
                                                   ELSE {"plane_stop", "reply"})
  /\ req[c] \in {"crtc", "crtc_stop"} => c \in CrtcClients
  /\ Working(c) /\ pc \in {"crtc_save", "crtc_set", "crtc_stop"} => c \in CrtcClients
  /\ faults = 0 /\ c \notin dropped /\ (req[c] # "none" \/ Working(c)) => at[c] \in Waits

\* The server has accepted the magic of c, or will before c knows.
Trusted(c) ==
  \/ at[c] \in {"send_show", "wait_show", "draw", "send_stop", "wait_stop"}
  \/ at[c] = "wait_auth" /\ resp[c] = "DRM_OK"
  \/ req[c] \in Commands \ {"auth"}

\* c may ask for the CRTC to be restored, or has.
Stoppable(c) ==
  \/ c \in CrtcClients /\ at[c] \in {"draw", "send_stop", "wait_stop"}
  \/ c \in CrtcClients /\ at[c] = "wait_show" /\ resp[c] = "DRM_OK"
  \/ req[c] = "crtc_stop"

\* The only client of the CRTC, as long as nothing went wrong.
Alone(c) == CrtcClients = {c} /\ result[c] \in {"none", "ok"}

\* A CRTC that can be restored; for a client alone it is the one with the console.
Good(c, saved) == saved \notin {"null", "junk"} /\ (Alone(c) => saved = "console")

\* The entry of its slot is the client's own, or fit to restore the CRTC from.
Entered(c) == c \in dropped \/ \E j \in Used : slot[j] = c /\ info[j].owner = c
Restorable(c) == c \in dropped \/ \E j \in Used : slot[j] = c /\ Good(c, info[j].saved)

InfoInv(c) ==
  /\ Trusted(c) => Entered(c)
  /\ Stoppable(c) => Restorable(c)
  /\ Working(c) /\ pc \notin {"auth", "reply"} => info[i].owner = c
  /\ Working(c) /\ pc \in {"crtc_set", "crtc_stop"} => Good(c, info[i].saved)
  /\ Working(c) /\ pc = "reply" /\ ret = 0 =>
       /\ info[i].owner = c
       /\ at[c] = "wait_show" /\ c \in CrtcClients => Good(c, info[i].saved)

-----------------------------------------------------------------------------
(* The screen *)

\* What is shown exists; while nothing went wrong the CRTC shows the console or,
\* from the request to its end, what its only client draws.
ScreenInv ==
  /\ plane \in fbs \cup {"off"}
  /\ crtc \in (fbs \cap CrtcClients) \cup {"console", "off"}
  /\ \A j \in Slots : info[j].saved \in CrtcClients \cup {"console", "off", "null", "junk"}
  /\ CrtcClients = {} => crtc = "console"

AloneInv(c) ==
  Alone(c) =>
    /\ crtc \in {"console", c}
    /\ crtc = c => \/ at[c] \in {"draw", "send_stop", "wait_stop"}
                   \/ at[c] = "wait_show" /\ (\/ Working(c) /\ pc = "reply"
                                              \/ resp[c] # "none" \/ c \in dropped)
    /\ at[c] = "wait_stop" /\ (resp[c] = "DRM_OK" \/ (Working(c) /\ pc = "reply" /\ ret = 0))
         => crtc = "console"

\* Without faults the server is not killed, and removes its name.
PathInv == faults = 0 => pc \notin {"sigpipe", "bind_failed"} /\ (pc \in {"bind", "exit"} => ~path)

IInv ==
  /\ RoundsInv /\ ScreenInv /\ PathInv
  /\ \A c \in Clients : SyncInv(c) /\ InfoInv(c) /\ AloneInv(c)

SessionInv(c) == SyncInv(c) /\ InfoInv(c) /\ AloneInv(c)

-----------------------------------------------------------------------------
(* Sessions: the steps of the clients *)

\* Whoever takes the step, what is under way for client d stays so.
LEMMA SessionStays ==
  ASSUME NEW d, SessionInv(d), UNCHANGED <<pc, slot, i, info, ret, dropped>>,
         at'[d] = at[d], req'[d] = req[d], resp'[d] = resp[d], result'[d] = result[d],
         Alone(d) => crtc' = crtc, faults' = 0 => faults = 0
  PROVE  SessionInv(d)'
<1> USE DEF SessionInv
<1>1. Working(d)' = Working(d) /\ Used' = Used /\ Alone(d)' = Alone(d)
  BY DEF Working, Used, Slots, Alone
<1>2. SyncInv(d)' BY <1>1 DEF SyncInv, Pending
<1>3. InfoInv(d)'
  BY <1>1 DEF InfoInv, Entered, Restorable, Trusted, Stoppable, Good
<1>4. AloneInv(d)' BY <1>1 DEF AloneInv
<1> QED BY <1>2, <1>3, <1>4

\* Of its own entry a client keeps what it still relies on.
LEMMA InfoStays ==
  ASSUME NEW c, InfoInv(c), UNCHANGED <<serverVars, dropped>>,
         Alone(c)' => Alone(c), Trusted(c)' => Trusted(c), Stoppable(c)' => Stoppable(c),
         Working(c) /\ at'[c] = "wait_show" => at[c] = "wait_show"
  PROVE  InfoInv(c)'
<1>1. /\ Working(c)' = Working(c) /\ Used' = Used
      /\ UNCHANGED <<pc, slot, i, info, ret, dropped>>
  BY DEF Working, Used, Slots, serverVars
<1>2. \A saved : Good(c, saved) => Good(c, saved)'
  BY DEF Good
<1>3. Entered(c) => Entered(c)' BY <1>1 DEF Entered
<1>4. Restorable(c) => Restorable(c)' BY <1>1, <1>2 DEF Restorable, Good
<1>5. /\ Good(c, info[i].saved) => Good(c, info[i].saved)'
  BY <1>1 DEF Good
<1> QED BY <1>1, <1>3, <1>4, <1>5 DEF InfoInv

\* Before it sends, and after its setup failed, a client has nothing under way.
LEMMA SetupSession ==
  ASSUME NEW c \in Clients, SessionInv(c), UNCHANGED <<serverVars, dropped, crtc>>,
         at[c] \in {"connect", "setup"}, at'[c] \in {"setup", "send_auth"} \cup LabelNames,
         req'[c] = req[c], resp'[c] = resp[c],
         result'[c] = result[c] \/ result'[c] = "failed"
  PROVE  SessionInv(c)'
<1> USE DEF SessionInv
<1>1. /\ Working(c)' = Working(c) /\ UNCHANGED <<pc, slot, i, info, ret, dropped>>
  BY DEF Working, serverVars
<1>2. req[c] = "none" /\ resp[c] = "none" /\ ~Working(c)
  BY DEF SyncInv, Waits, LabelNames
<1>3. at'[c] \notin {"wait_auth", "wait_show", "wait_stop", "send_show", "draw", "send_stop"}
  BY DEF LabelNames
<1>4. SyncInv(c)' BY <1>1, <1>2, <1>3 DEF SyncInv
<1>5. InfoInv(c)' BY <1>1, <1>2, <1>3 DEF InfoInv, Trusted, Stoppable, Commands
<1>6. Alone(c)' => Alone(c) BY DEF Alone
<1>7. AloneInv(c)'
  <2>1. Alone(c) => crtc # c BY <1>2 DEF AloneInv
  <2> QED BY <1>1, <1>3, <1>6, <2>1 DEF AloneInv
<1> QED BY <1>4, <1>5, <1>7

LEMMA SendSession ==
  ASSUME RoundsInv, NEW c \in Clients, SessionInv(c), Send(c), ~Killed(c), UNCHANGED serverVars
  PROVE  SessionInv(c)'
<1> USE DEF SessionInv
<1>1. /\ UNCHANGED <<serverVars, dropped, resp, result, crtc, faults>> /\ c \notin dropped
      /\ \/ at[c] = "send_auth" /\ at'[c] = "wait_auth" /\ req'[c] = "auth"
         \/ at[c] = "send_show" /\ at'[c] = "wait_show" /\ req'[c] = ShowCmd(c)
         \/ at[c] = "send_stop" /\ at'[c] = "wait_stop" /\ req'[c] = StopCmd(c)
  <2>1. /\ at \in [Clients -> {"connect", "setup", "done"} \cup Talking \cup LabelNames]
        /\ req \in [Clients -> Commands \cup {"none"}]
    BY AtIs DEF RoundsInv, ServerPart, OwnInv, OwnTypeOK, ProtoTypeOK
  <2> QED BY <2>1 DEF Send, NoFault, Go, deviceVars
<1>2. /\ Working(c)' = Working(c) /\ UNCHANGED <<pc, slot, i, info, ret, dropped>>
  BY <1>1 DEF Working, serverVars
<1>3. req[c] = "none" /\ resp[c] = "none" /\ ~Working(c) /\ resp'[c] = "none" /\ result'[c] # "ok"
  <2>1. at[c] \notin Waits \cup LabelNames \cup {"done"}
    BY <1>1 DEF Waits, LabelNames
  <2>2. HeldInv(c) BY DEF RoundsInv, OwnInv
  <2>3. result[c] = "none" BY <2>1, <2>2 DEF HeldInv
  <2> QED BY <1>1, <2>1, <2>3 DEF SyncInv
<1>4. SyncInv(c)'
  <2>1. ShowCmd(c) \in {"crtc", "plane"} /\ (ShowCmd(c) = "crtc" => c \in CrtcClients)
        /\ StopCmd(c) \in {"crtc_stop", "plane_stop"} /\ (StopCmd(c) = "crtc_stop" => c \in CrtcClients)
        /\ ShowCmd(c)' = ShowCmd(c) /\ StopCmd(c)' = StopCmd(c)
    BY DEF ShowCmd, StopCmd
  <2>2. at'[c] \in Waits BY <1>1 DEF Waits
  <2> QED BY <1>1, <1>2, <1>3, <2>1, <2>2 DEF SyncInv, Pending
<1>5. InfoInv(c)'
  <2>1. Alone(c)' => Alone(c) BY <1>1 DEF Alone
  <2>2. Trusted(c)' => Trusted(c) BY <1>1, <1>3 DEF Trusted
  <2>3. Stoppable(c)' => Stoppable(c)
    BY <1>1, <1>3 DEF Stoppable, ShowCmd, StopCmd
  <2> QED BY <1>1, <1>3, <2>1, <2>2, <2>3, InfoStays
<1>6. AloneInv(c)'
  <2>1. Alone(c)' => Alone(c) BY <1>1 DEF Alone
  <2> QED BY <1>1, <1>2, <1>3, <2>1 DEF AloneInv
<1> QED BY <1>4, <1>5, <1>6

\* The session goes on after a good answer, or a key, or ends regularly.
LEMMA GoesOn ==
  ASSUME NEW c \in Clients, SessionInv(c), UNCHANGED <<serverVars, dropped, crtc>>, req'[c] = req[c],
         \/ resp[c] = "DRM_OK" /\ resp'[c] = "none"
         \/ resp[c] = "none" /\ resp'[c] = "none" /\ at[c] = "draw",
         \/ at[c] = "wait_auth" /\ at'[c] = "send_show" /\ result'[c] = result[c]
         \/ at[c] = "wait_show" /\ at'[c] = "draw" /\ result'[c] = result[c]
         \/ at[c] = "draw" /\ at'[c] = "send_stop" /\ result'[c] = result[c]
         \/ at[c] = "wait_stop" /\ at'[c] = "err_fb" /\ result[c] = "none" /\ result'[c] = "ok"
  PROVE  SessionInv(c)'
<1> USE DEF SessionInv
<1>1. /\ Working(c)' = Working(c) /\ UNCHANGED <<pc, slot, i, info, ret, dropped>>
  BY DEF Working, serverVars
<1>2. req[c] = "none" /\ ~Working(c) /\ resp'[c] = "none"
  BY DEF SyncInv, Waits, LabelNames
<1>3. SyncInv(c)' BY <1>1, <1>2 DEF SyncInv
<1>4. Alone(c)' => Alone(c) BY DEF Alone
<1>5. InfoInv(c)'
  <2>1. Trusted(c)' => Trusted(c) BY <1>2 DEF Trusted, Commands
  <2>2. Stoppable(c)' => Stoppable(c) BY <1>2 DEF Stoppable
  <2> QED BY <1>2, <1>4, <2>1, <2>2, InfoStays
<1>6. AloneInv(c)'
  <2>1. Alone(c) /\ at[c] \in {"wait_auth", "wait_stop"} => crtc # c \/ crtc = "console"
    BY <1>2 DEF AloneInv
  <2>2. "console" # c BY Strangers
  <2> QED BY <1>1, <1>2, <1>4, <2>1, <2>2 DEF AloneInv
<1> QED BY <1>3, <1>5, <1>6

\* A client that gives up, or whose labels are run through, leaves what it asked for
\* to the server.
LEMMA GivesUp ==
  ASSUME NEW c \in Clients, SessionInv(c), UNCHANGED <<serverVars, dropped>>, req'[c] = req[c],
         resp'[c] = resp[c] \/ resp'[c] = "none", at'[c] \in LabelNames \cup {"done"},
         \/ at[c] \in LabelNames /\ result'[c] = result[c] /\ (crtc = c \/ crtc' = crtc)
         \/ result'[c] \in {"failed", "killed"},
         faults' = 0 => /\ faults = 0
                        /\ at[c] \in LabelNames \/ c \in dropped \/ resp[c] # "none"
  PROVE  SessionInv(c)'
<1> USE DEF SessionInv
<1>1. /\ Working(c)' = Working(c) /\ UNCHANGED <<pc, slot, i, info, ret, dropped>>
  BY DEF Working, serverVars
<1>2. at'[c] \notin Waits \cup {"send_show", "draw", "send_stop"} BY DEF LabelNames, Waits
<1>3. SyncInv(c)'
  <2>1. at[c] \in LabelNames => at[c] \notin Waits BY DEF LabelNames, Waits
  <2> QED BY <1>1, <1>2, <2>1 DEF SyncInv, Waits
<1>4. Alone(c)' => Alone(c) /\ at[c] \in LabelNames /\ (crtc = c \/ crtc' = crtc)
  BY DEF Alone
<1>5. InfoInv(c)'
  <2>1. Trusted(c)' => Trusted(c) BY <1>2 DEF Trusted, Waits
  <2>2. Stoppable(c)' => Stoppable(c) BY <1>2 DEF Stoppable, Waits
  <2>3. at'[c] # "wait_show" BY <1>2 DEF Waits
  <2> QED BY <1>4, <2>1, <2>2, <2>3, InfoStays
<1>6. AloneInv(c)'
  <2>1. Alone(c)' => crtc # c /\ crtc = "console"
    BY <1>4 DEF AloneInv, LabelNames
  <2>2. "console" # c BY Strangers
  <2> QED BY <1>2, <1>4, <2>1, <2>2 DEF AloneInv, Waits
<1> QED BY <1>3, <1>5, <1>6

LEMMA LabelSession ==
  ASSUME RoundsInv, NEW c \in Clients, SessionInv(c), Cleanup(c), UNCHANGED serverVars
  PROVE  SessionInv(c)'
<1>1. UNCHANGED <<dropped, req, resp, result, faults>> BY DEF Cleanup, NoFault
<1>2. at \in [Clients -> {"connect", "setup", "done"} \cup Talking \cup LabelNames]
  BY AtIs DEF RoundsInv, OwnInv, OwnTypeOK
<1>3. at[c] \in LabelNames /\ at'[c] \in LabelNames \cup {"done"}
  BY <1>2, CleanupCases DEF LabelNames
<1>4. crtc = c \/ crtc' = crtc BY CleanupCases DEF CloseDevice, RmFB, deviceVars
<1> QED BY <1>1, <1>3, <1>4, GivesUp

LEMMA KilledSession ==
  ASSUME RoundsInv, NEW c \in Clients, SessionInv(c), Killed(c), UNCHANGED serverVars,
         Fault \/ (NoFault /\ c \in dropped)
  PROVE  SessionInv(c)'
<1>1. UNCHANGED <<dropped, req, resp>> BY DEF Killed
<1>2. at'[c] = "done" /\ result'[c] = "killed"
  BY DEF Killed, RoundsInv, OwnInv, OwnTypeOK, ClientTypeOK
<1>3. faults' = 0 => faults = 0 /\ c \in dropped
  BY ClientAssumption DEF Fault, NoFault, RoundsInv, OwnInv, OwnTypeOK, ClientTypeOK
<1> QED BY <1>1, <1>2, <1>3, GivesUp

LEMMA AnswerSession ==
  ASSUME RoundsInv, NEW c \in Clients, SessionInv(c), Receive(c) \/ Timeout(c) \/ Key(c),
         UNCHANGED serverVars
  PROVE  SessionInv(c)'
<1>1. UNCHANGED <<serverVars, dropped, req, crtc>>
  BY DEF Receive, Timeout, Key, protoVars, socketVars, deviceVars
<1>2. /\ at \in [Clients -> {"connect", "setup", "done"} \cup Talking \cup LabelNames]
      /\ resp \in [Clients -> {"none", "DRM_OK", "DRM_ERROR"}]
      /\ result \in [Clients -> {"none", "ok", "failed", "killed"}] /\ faults \in Nat
  BY AtIs, ClientAssumption
  DEF RoundsInv, ServerPart, OwnInv, OwnTypeOK, ProtoTypeOK, ClientTypeOK
<1>3. "err_fb" \in LabelNames BY DEF LabelNames
<1>4. at[c] \in Waits => result[c] = "none"
  BY DEF RoundsInv, OwnInv, HeldInv, Waits, LabelNames
<1>5. CASE Receive(c) /\ resp[c] = "DRM_OK"
  <2>1. /\ resp'[c] = "none" /\ at[c] \in Waits
        /\ \/ at[c] = "wait_auth" /\ at'[c] = "send_show" /\ result'[c] = result[c]
           \/ at[c] = "wait_show" /\ at'[c] = "draw" /\ result'[c] = result[c]
           \/ at[c] = "wait_stop" /\ at'[c] = "err_fb" /\ result'[c] = "ok"
    BY <1>2, <1>5 DEF Receive, Waits, Go, Leave
  <2> QED BY <1>1, <1>4, <1>5, <2>1, GoesOn
<1>6. CASE Receive(c) /\ resp[c] # "DRM_OK"
  <2>1. /\ at'[c] = "err_fb" /\ result'[c] = "failed" /\ resp'[c] \in {"none", resp[c]}
        /\ faults' = faults /\ (c \in dropped \/ resp[c] # "none")
    BY <1>2, <1>6 DEF Receive, Leave, Go, NoFault
  <2> QED BY <1>1, <1>3, <2>1, GivesUp
<1>7. CASE Timeout(c)
  <2>1. at'[c] = "err_fb" /\ result'[c] = "failed" /\ resp'[c] = resp[c] /\ faults' # 0
    BY <1>2, <1>7 DEF Timeout, Leave, Go, Fault, protoVars, socketVars
  <2> QED BY <1>1, <1>3, <2>1, GivesUp
<1>8. CASE Key(c)
  <2>1. /\ at[c] = "draw" /\ at'[c] = "send_stop" /\ result'[c] = result[c] /\ resp'[c] = resp[c]
    BY <1>2, <1>8 DEF Key, Go, protoVars, socketVars
  <2>2. resp[c] = "none" BY <2>1 DEF SessionInv, SyncInv, Waits, LabelNames
  <2> QED BY <1>1, <2>1, <2>2, GoesOn
<1> QED BY <1>5, <1>6, <1>7, <1>8

LEMMA BeginSession ==
  ASSUME RoundsInv, NEW c \in Clients, SessionInv(c), Connect(c, Listening) \/ Acquire(c),
         UNCHANGED serverVars
  PROVE  SessionInv(c)'
<1>1. /\ at \in [Clients -> {"connect", "setup", "done"} \cup Talking \cup LabelNames]
      /\ result \in [Clients -> {"none", "ok", "failed", "killed"}]
  BY AtIs DEF RoundsInv, OwnInv, OwnTypeOK, ClientTypeOK
<1>2. CASE Connect(c, Listening)
  <2>1. /\ UNCHANGED <<dropped, crtc, req, resp>> /\ at[c] = "connect"
        /\ at'[c] \in {"setup", "err_close_net"} /\ result'[c] \in {result[c], "failed"}
    BY <1>1, <1>2 DEF Connect, Go, Leave, deviceVars
  <2>2. "err_close_net" \in LabelNames BY DEF LabelNames
  <2> QED BY <2>1, <2>2, SetupSession
<1>3. CASE Acquire(c)
  <2>1. PICK reached \in 0..6 :
          /\ at[c] = "setup"
          /\ IF reached = 6
               THEN Go(c, "send_auth") /\ UNCHANGED result
               ELSE Leave(c, FailLabel(reached + 1), "failed")
          /\ UNCHANGED <<socketVars, authed, crtc, plane>>
    BY <1>3, LadderIs DEF Acquire
  <2>2. reached # 6 => FailLabel(reached + 1) \in LabelNames
    <3>1. reached \in {0, 1, 2, 3, 4, 5, 6} OBVIOUS
    <3>2. 0 + 1 = 1 /\ 1 + 1 = 2 /\ 2 + 1 = 3 /\ 3 + 1 = 4 /\ 4 + 1 = 5 /\ 5 + 1 = 6 OBVIOUS
    <3> QED BY <3>1, <3>2, LadderIs DEF FailLabel, LabelNames
  <2>3. /\ UNCHANGED <<dropped, crtc, req, resp>>
        /\ at'[c] \in {"setup", "send_auth"} \cup LabelNames /\ result'[c] \in {result[c], "failed"}
    BY <1>1, <2>1, <2>2 DEF Go, Leave, socketVars
  <2> QED BY <2>1, <2>3, SetupSession
<1> QED BY <1>2, <1>3

\* A step of client c, to the sessions of all.
LEMMA ClientSessions ==
  ASSUME IInv, NEW c \in Clients, ClientStep(c)
  PROVE  IInv'
<1> USE DEF IInv
<1>1. RoundsInv' BY ClientRounds
<1>2. UNCHANGED serverVars BY DEF ClientStep
<1>3. SessionInv(c) BY DEF SessionInv
<1>4. SessionInv(c)'
  <2>1. CASE Send(c) /\ Killed(c)
    <3>1. at'[c] = "done"
      BY <2>1 DEF Killed, RoundsInv, OwnInv, OwnTypeOK, ClientTypeOK
    <3>2. NoFault /\ c \in dropped
      BY <2>1, <3>1 DEF Send, Go, RoundsInv, OwnInv, OwnTypeOK, ClientTypeOK
    <3> QED BY <1>2, <1>3, <2>1, <3>2, KilledSession
  <2> QED BY <1>2, <1>3, <2>1, BeginSession, SendSession, LabelSession, KilledSession, AnswerSession
      DEF ClientStep, Client, Kill
<1>5. faults' = 0 => faults = 0
  <2>1. NoFault \/ Fault
    BY DEF ClientStep, Client, Connect, Acquire, Cleanup, Send, Receive, Timeout, Key, Kill
  <2> QED BY <2>1, ClientAssumption DEF NoFault, Fault, RoundsInv, OwnInv, OwnTypeOK, ClientTypeOK
<1>6. /\ UNCHANGED <<serverVars, dropped, path>>
      /\ \A d \in Clients : d # c => req'[d] = req[d] /\ resp'[d] = resp[d]
      /\ \/ UNCHANGED deviceVars
         \/ RmFB(c) /\ authed' \in {authed, authed \ {c}}
         \/ fbs' = fbs \cup {c} /\ UNCHANGED <<authed, crtc, plane>>
  BY ClientCases DEF RoundsInv, ServerPart, ProtoTypeOK
<1>7. \A d \in Clients : d # c => at'[d] = at[d] /\ result'[d] = result[d]
  <2>1. /\ at \in [Clients -> {"connect", "setup", "done"} \cup Talking \cup LabelNames]
        /\ result \in [Clients -> {"none", "ok", "failed", "killed"}]
    BY AtIs DEF RoundsInv, OwnInv, OwnTypeOK, ClientTypeOK
  <2>2. CASE Connect(c, Listening) \/ Acquire(c)
    BY <2>1, <2>2 DEF Connect, Acquire, Go, Leave
  <2>3. CASE Cleanup(c)
    <3>1. result' = result BY <2>3 DEF Cleanup
    <3> QED BY <2>1, <2>3, <3>1, CleanupCases
  <2>4. CASE Killed(c) BY <2>1, <2>4 DEF Killed
  <2>5. CASE Receive(c) \/ Timeout(c) \/ Key(c) \/ (Send(c) /\ ~Killed(c))
    BY <2>1, <2>5, TalkCases
  <2> QED BY <2>2, <2>3, <2>4, <2>5 DEF ClientStep, Client, Kill
<1>8. ASSUME NEW d \in Clients, d # c PROVE SessionInv(d)'
  <2>1. Alone(d) => crtc' = crtc
    <3>1. Alone(d) => crtc \in {"console", d} BY DEF AloneInv
    <3>2. c # "console" BY Strangers
    <3> QED BY <1>6, <1>8, <3>1, <3>2 DEF RmFB, deviceVars
  <2>2. SessionInv(d) BY DEF SessionInv
  <2> QED BY <1>5, <1>6, <1>7, <1>8, <2>1, <2>2, SessionStays DEF serverVars
<1>9. ScreenInv'
  <2>1. /\ plane' \in fbs' \cup {"off"} /\ crtc' \in (fbs' \cap CrtcClients) \cup {"console", "off"}
        /\ CrtcClients = {} => crtc' = "console"
    <3>1. c # "console" /\ c # "off" BY Strangers
    <3> QED BY <1>6, <3>1 DEF ScreenInv, RmFB, deviceVars
  <2> QED BY <1>6, <2>1 DEF ScreenInv, serverVars, Slots
<1>10. PathInv' BY <1>5, <1>6 DEF PathInv, serverVars
<1> QED BY <1>1, <1>4, <1>8, <1>9, <1>10 DEF SessionInv

-----------------------------------------------------------------------------
(* Sessions: the steps of the server *)

\* The server's step is not about client c: at most it closes its connection.
LEMMA SessionAside ==
  ASSUME NEW c \in Clients, SessionInv(c), UNCHANGED clientVars, req'[c] = req[c], resp'[c] = resp[c],
         dropped \subseteq dropped', Alone(c) => crtc' = crtc, ~Working(c), ~Working(c)',
         \A j \in Used : slot[j] = c =>
           c \in dropped' \/ (j \in Used' /\ slot'[j] = c /\ info'[j] = info[j])
  PROVE  SessionInv(c)'
<1> USE DEF SessionInv
<1>1. at' = at /\ result' = result /\ faults' = faults BY DEF clientVars
<1>2. /\ Alone(c)' = Alone(c) /\ Trusted(c)' = Trusted(c) /\ Stoppable(c)' = Stoppable(c)
  BY <1>1 DEF Alone, Trusted, Stoppable
<1>3. SyncInv(c)' BY <1>1 DEF SyncInv, Pending, ShowCmd, StopCmd
<1>4. Entered(c) => Entered(c)' BY DEF Entered
<1>5. Restorable(c) => Restorable(c)'
  <2>1. ASSUME NEW j \in Used, slot[j] = c, Good(c, info[j].saved), c \notin dropped'
        PROVE  j \in Used' /\ slot'[j] = c /\ Good(c, info[j].saved)'
    BY <1>2, <2>1 DEF Good
  <2> QED BY <2>1 DEF Restorable
<1>6. InfoInv(c)' BY <1>2, <1>4, <1>5 DEF InfoInv
<1>7. AloneInv(c)' BY <1>1, <1>2 DEF AloneInv
<1> QED BY <1>3, <1>6, <1>7

\* The client whose request the server works on.
LEMMA Served ==
  ASSUME RoundsInv, NEW c, c = slot[i], SessionInv(c), pc \in Work
  PROVE  /\ i \in Used /\ i \in Slots /\ c \in Clients /\ Working(c) /\ c \notin dropped
         /\ c \notin ToSet(backlog) /\ link[c] # "new"
         /\ req[c] = "none" /\ resp[c] = "none" /\ result[c] # "ok"
         /\ at[c] \in Waits \cup LabelNames \cup {"done"}
         /\ at[c] \in Waits \/ ~Alone(c)
         /\ \A j \in Used : slot[j] = c => j = i
<1>1. i \in Used /\ i \in Slots /\ c \in Clients /\ Working(c)
  BY UsedIs DEF RoundsInv, ServerPart, RoundInv, Working
<1>2. c \notin dropped /\ c \notin ToSet(backlog) /\ link[c] # "new"
  BY <1>1 DEF RoundsInv, PlaceInv
<1>3. /\ req[c] = "none" /\ resp[c] = "none" /\ result[c] # "ok"
      /\ at[c] \in Waits \cup LabelNames \cup {"done"}
  BY <1>1 DEF SessionInv, SyncInv
<1>4. at[c] \in Waits \/ ~Alone(c)
  BY <1>1, <1>3 DEF RoundsInv, OwnInv, HeldInv, Alone
<1>5. \A j \in Used : slot[j] = c => j = i
  BY <1>1 DEF RoundsInv, ServerPart, SlotsInv
<1> QED BY <1>1, <1>2, <1>3, <1>4, <1>5

\* What a handler does, to the session it serves.
LEMMA RequestSession ==
  ASSUME RoundsInv, ScreenInv, NEW c, c = slot[i], SessionInv(c), Request, UNCHANGED clientVars
  PROVE  SessionInv(c)' /\ (pc \in {"crtc_save", "crtc_set", "crtc_stop"} => c \in CrtcClients)
<1> USE DEF SessionInv
<1>1. /\ pc \in Work \ {"reply"} /\ UNCHANGED <<socketVars, running, slot, revents, rc, i>>
      /\ pc' = "reply" \/ (pc = "crtc_save" /\ pc' = "crtc_set")
  BY DEF Request, Auth, CrtcSave, CrtcSet, PlaneSet, CrtcStop, PlaneStop, sameLoop, Result, Work
<1>2. /\ i \in Used /\ i \in Slots /\ c \in Clients /\ Working(c) /\ c \notin dropped
      /\ req[c] = "none" /\ resp[c] = "none" /\ result[c] # "ok"
      /\ at[c] \in Waits \cup LabelNames \cup {"done"}
      /\ at[c] \in Waits \/ ~Alone(c)
      /\ \A j \in Used : slot[j] = c => j = i
  BY <1>1, Served
<1>3. /\ at' = at /\ result' = result /\ faults' = faults /\ req' = req /\ resp' = resp
      /\ slot' = slot /\ i' = i /\ dropped' = dropped /\ Used' = Used
      /\ Working(c)' /\ Alone(c)' = Alone(c)
  BY <1>1, <1>2 DEF clientVars, socketVars, Used, Slots, Alone, Working, Work
<1>4. /\ at[c] = "wait_auth" => pc = "auth"
      /\ at[c] = "wait_show" => IF c \in CrtcClients THEN pc \in {"crtc_save", "crtc_set"}
                                                     ELSE pc = "plane_set"
      /\ at[c] = "wait_stop" => IF c \in CrtcClients THEN pc = "crtc_stop" ELSE pc = "plane_stop"
      /\ pc \in {"crtc_save", "crtc_set", "crtc_stop"} => c \in CrtcClients
      /\ at[c] \notin {"draw", "send_stop"}
  BY <1>1, <1>2 DEF SyncInv, Pending, Work, Waits, LabelNames
<1>5. SyncInv(c)'
  BY <1>1, <1>2, <1>3, <1>4 DEF SyncInv, Pending, ShowCmd, StopCmd
<1>6. info \in [Slots -> [owner : Clients \cup {NoClient},
                          saved : Clients \cup {"console", "off", "null", "junk"}]]
  BY DEF RoundsInv, ServerPart, ServerTypeOK
<1>7. /\ pc = "auth" => \/ info'[i] = [owner |-> c, saved |-> "null"] /\ ret' = 0
                        \/ info' = info /\ ret' = 1
      /\ pc = "crtc_save" => \/ /\ info'[i].owner = info[i].owner /\ info'[i].saved = crtc
                                /\ pc' = "crtc_set"
                             \/ info' = info /\ ret' = 1 /\ pc' = "reply"
      /\ pc \notin {"auth", "crtc_save"} => info' = info
  BY <1>2, <1>6
  DEF Request, Auth, CrtcSave, CrtcSet, PlaneSet, CrtcStop, PlaneStop, Result
<1>8. /\ pc \in {"auth", "crtc_save", "plane_set", "plane_stop"} => crtc' = crtc
      /\ pc = "crtc_set" => crtc' = c \/ (crtc' = crtc /\ ret' = 1)
      /\ pc = "crtc_stop" /\ info[i].saved = "console" =>
           crtc' = "console" \/ (crtc' = crtc /\ ret' = 1)
  BY DEF Request, Auth, CrtcSave, CrtcSet, PlaneSet, CrtcStop, PlaneStop, Result, deviceVars, CanShow
<1>9. Alone(c) => /\ c \in CrtcClients /\ crtc \in {"console", c}
                  /\ pc # "reply" => crtc = "console" \/ at[c] = "wait_stop"
  BY <1>2, <1>4 DEF AloneInv, Alone
<1>10. InfoInv(c)'
  <2>1. Trusted(c)' = Trusted(c) /\ Stoppable(c)' = Stoppable(c)
    BY <1>3 DEF Trusted, Stoppable
  <2>2. Entered(c) => Entered(c)'
    <3>1. info[i].owner = c => info'[i].owner = c BY <1>7
    <3> QED BY <1>2, <1>3, <3>1 DEF Entered
  <2>3. Stoppable(c) => pc = "crtc_stop"
    BY <1>2, <1>4 DEF Stoppable
  <2>4. pc = "crtc_stop" => (Restorable(c) => Restorable(c)')
    BY <1>3, <1>7 DEF Restorable, Good
  <2>5. pc' = "crtc_set" => info'[i].owner = c /\ Good(c, info[i].saved)'
    <3>1. ASSUME pc' = "crtc_set" PROVE info'[i].owner = c /\ info'[i].saved = crtc
      BY <1>1, <1>2, <1>7, <3>1 DEF InfoInv
    <3>2. ASSUME pc' = "crtc_set" PROVE Good(c, crtc)
      <4>1. pc = "crtc_save" BY <1>1, <3>2
      <4>2. crtc \notin {"null", "junk"}
        <5>1. crtc \in Clients \cup {"console", "off"} BY DEF RoundsInv, ServerPart, ProtoTypeOK
        <5> QED BY <5>1, Strangers
      <4>3. Alone(c) => crtc = "console" BY <1>4, <1>9, <4>1
      <4> QED BY <4>2, <4>3 DEF Good
    <3> QED BY <1>3, <3>1, <3>2 DEF Good
  <2>6. pc' = "reply" /\ ret' = 0 => info'[i].owner = c
    BY <1>1, <1>2, <1>7 DEF InfoInv, Work
  <2>7. pc' = "reply" /\ ret' = 0 /\ at[c] = "wait_show" /\ c \in CrtcClients =>
          Good(c, info[i].saved)'
    <3>1. pc' = "reply" /\ ret' = 0 /\ at[c] = "wait_show" /\ c \in CrtcClients =>
            pc = "crtc_set" /\ info' = info
      BY <1>4, <1>7
    <3>2. pc = "crtc_set" => Good(c, info[i].saved) BY <1>2 DEF InfoInv
    <3> QED BY <1>3, <3>1, <3>2 DEF Good
  <2> QED BY <1>1, <1>3, <2>1, <2>2, <2>3, <2>4, <2>5, <2>6, <2>7 DEF InfoInv
<1>11. AloneInv(c)'
  <2> SUFFICES ASSUME Alone(c)
               PROVE  /\ crtc' \in {"console", c}
                      /\ crtc' = c => at[c] = "wait_stop" \/ (at[c] = "wait_show" /\ pc' = "reply")
                      /\ at[c] = "wait_stop" => crtc' = "console" \/ ret' = 1
    BY <1>2, <1>3 DEF AloneInv
  <2>0. c # "console" /\ c \in CrtcClients BY <1>2, <1>9, Strangers
  <2>1. CASE at[c] = "wait_auth" BY <1>4, <1>8, <1>9, <2>0, <2>1
  <2>2. CASE at[c] = "wait_show"
    <3>1. pc \in {"crtc_save", "crtc_set"} BY <1>4, <2>0, <2>2
    <3>2. crtc = "console" BY <1>9, <2>2, <3>1
    <3>3. pc = "crtc_save" => crtc' = "console" BY <1>8, <3>2
    <3>4. pc = "crtc_set" => crtc' \in {"console", c} /\ pc' = "reply" BY <1>1, <1>8, <3>2
    <3> QED BY <2>0, <2>2, <3>1, <3>3, <3>4
  <2>3. CASE at[c] = "wait_stop"
    <3>1. pc = "crtc_stop" BY <1>4, <2>0, <2>3
    <3>2. info[i].saved = "console" BY <1>2, <3>1 DEF InfoInv, Good
    <3> QED BY <1>8, <1>9, <2>0, <2>3, <3>1, <3>2
  <2> QED BY <1>2, <2>1, <2>2, <2>3 DEF Waits
<1> QED BY <1>4, <1>5, <1>10, <1>11

\* A request is taken from the connection.
LEMMA ReadSession ==
  ASSUME RoundsInv, ScreenInv, NEW c, c = slot[i], SessionInv(c), Read, req[c] # "none",
         UNCHANGED clientVars
  PROVE  SessionInv(c)' /\ \A d \in Clients : d # c => req'[d] = req[d] /\ ~Working(d)'
<1> USE DEF SessionInv
<1>1. /\ i \in Used /\ i \in Slots /\ c \in Clients /\ pc = "read"
      /\ c \notin dropped /\ \A j \in Used : slot[j] = c => j = i
  BY UsedIs DEF RoundsInv, ServerPart, RoundInv, SlotsInv, Read, PlaceInv
<1>2. /\ req' = [req EXCEPT ![c] = "none"] /\ pc' = Handler(req[c])
      /\ UNCHANGED <<dropped, slot, i, link, resp, deviceVars, info, ret>>
  BY DEF Read
<1>3. /\ at' = at /\ result' = result /\ faults' = faults /\ resp' = resp
      /\ crtc' = crtc /\ Used' = Used /\ Alone(c)' = Alone(c)
  BY <1>2 DEF clientVars, deviceVars, Used, Slots, Alone
<1>4. req[c] \in Commands /\ req'[c] = "none"
  BY <1>1, <1>2 DEF RoundsInv, ServerPart, ProtoTypeOK
<1>5. resp[c] = "none" /\ ~Working(c) /\ Working(c)'
  BY <1>1, <1>2, <1>4 DEF SyncInv, Working, Work, Handler, Commands
<1>6. /\ req[c] = "auth" => pc' = "auth"
      /\ req[c] = "crtc" => pc' = "crtc_save" /\ c \in CrtcClients
      /\ req[c] = "plane" => pc' = "plane_set"
      /\ req[c] = "crtc_stop" => pc' = "crtc_stop" /\ c \in CrtcClients
      /\ req[c] = "plane_stop" => pc' = "plane_stop"
      /\ req[c] \in {"auth", "crtc", "plane", "crtc_stop", "plane_stop"}
  BY <1>2, <1>4 DEF Handler, SyncInv, Commands
<1>7. SyncInv(c)'
  <2>1. /\ at[c] = "wait_auth" => req[c] = "auth"
        /\ at[c] = "wait_show" => req[c] = ShowCmd(c)
        /\ at[c] = "wait_stop" => req[c] = StopCmd(c)
        /\ result[c] # "ok" /\ at[c] \in Waits \cup LabelNames \cup {"done"}
        /\ faults = 0 /\ c \notin dropped => at[c] \in Waits
    BY <1>4, <1>6 DEF SyncInv, Pending
  <2> QED BY <1>2, <1>3, <1>4, <1>5, <1>6, <2>1 DEF SyncInv, Pending, ShowCmd, StopCmd
<1>8. InfoInv(c)'
  <2>1. Trusted(c)' => Trusted(c) BY <1>3, <1>4 DEF Trusted, Commands
  <2>2. Stoppable(c)' => Stoppable(c) BY <1>3, <1>4 DEF Stoppable
  <2>3. Entered(c)' = Entered(c) /\ Restorable(c)' = Restorable(c)
    BY <1>2, <1>3 DEF Entered, Restorable, Good
  <2>4. pc' # "auth" => info[i].owner = c
    <3>1. pc' # "auth" => Trusted(c) BY <1>6 DEF Trusted, Commands
    <3> QED BY <1>1, <3>1 DEF InfoInv, Entered
  <2>5. pc' = "crtc_stop" => Good(c, info[i].saved)
    <3>1. pc' = "crtc_stop" => Stoppable(c) BY <1>6 DEF Stoppable
    <3> QED BY <1>1, <3>1 DEF InfoInv, Restorable
  <2>6. pc' \notin {"crtc_set", "reply"} BY <1>6
  <2> QED BY <1>2, <1>3, <2>1, <2>2, <2>3, <2>4, <2>5, <2>6 DEF InfoInv, Good
<1>9. AloneInv(c)' BY <1>1, <1>2, <1>3, <1>5, <1>6 DEF AloneInv
<1>10. \A d \in Clients : d # c => req'[d] = req[d] /\ ~Working(d)'
  BY <1>1, <1>2 DEF Working, RoundsInv, ServerPart, ProtoTypeOK
<1> QED BY <1>7, <1>8, <1>9, <1>10

\* The answer is on its way, or nobody is there to read it.
LEMMA ReplySession ==
  ASSUME RoundsInv, NEW c, c = slot[i], SessionInv(c), Reply, UNCHANGED clientVars
  PROVE  SessionInv(c)'
<1> USE DEF SessionInv
<1>1. /\ i \in Used /\ i \in Slots /\ c \in Clients /\ Working(c) /\ c \notin dropped /\ link[c] # "new"
      /\ req[c] = "none" /\ resp[c] = "none" /\ result[c] # "ok" /\ pc = "reply"
      /\ at[c] \in Waits \cup LabelNames \cup {"done"}
      /\ at[c] \in Waits \/ ~Alone(c)
      /\ \A j \in Used : slot[j] = c => j = i
  BY Served DEF Reply, Work
<1>2. /\ at' = at /\ result' = result /\ faults' = faults /\ req' = req /\ info' = info
      /\ crtc' = crtc /\ Alone(c)' = Alone(c)
  BY DEF Reply, clientVars, deviceVars, Alone
<1>3. CASE ProcessEnds("sigpipe") /\ resp' = resp /\ i' = i
  <2>1. c \in dropped'
    BY <1>1, <1>3 DEF ProcessEnds
  <2>2. ~Working(c)' BY <1>3 DEF ProcessEnds, Working, Work
  <2>3. SyncInv(c)' BY <1>1, <1>2, <1>3, <2>1, <2>2 DEF SyncInv, Pending, ShowCmd, StopCmd
  <2>4. InfoInv(c)' BY <2>1, <2>2 DEF InfoInv, Entered, Restorable
  <2>5. AloneInv(c)' BY <1>1, <1>2, <1>3, <2>1, <2>2 DEF AloneInv
  <2> QED BY <2>3, <2>4, <2>5
<1>4. CASE /\ resp' = [resp EXCEPT ![c] = IF ret = 0 THEN "DRM_OK" ELSE "DRM_ERROR"]
           /\ CountDown(i + 1)
           /\ UNCHANGED <<dropped, slot, backlog>>
  <2>1. /\ resp'[c] = (IF ret = 0 THEN "DRM_OK" ELSE "DRM_ERROR") /\ ~Working(c)'
        /\ Used' = Used /\ slot' = slot /\ dropped' = dropped
    <3>1. pc' \in {"check", "scan"} BY <1>4 DEF CountDown, NextRound
    <3> QED BY <1>1, <1>4, <3>1 DEF RoundsInv, ServerPart, ProtoTypeOK, Working, Work, Used, Slots
  <2>2. SyncInv(c)' BY <1>1, <1>2, <2>1 DEF SyncInv, Pending, ShowCmd, StopCmd
  <2>3. InfoInv(c)'
    <3>1. Entered(c)' = Entered(c) /\ Restorable(c)' = Restorable(c)
      BY <1>2, <2>1 DEF Entered, Restorable, Good
    <3>2. Trusted(c)' => Trusted(c) \/ (resp'[c] = "DRM_OK" /\ ret = 0)
      BY <1>2, <2>1 DEF Trusted
    <3>3. Stoppable(c)' => \/ Stoppable(c)
                           \/ at[c] = "wait_show" /\ c \in CrtcClients /\ ret = 0
      BY <1>2, <2>1 DEF Stoppable
    <3>4. ret = 0 => Entered(c) BY <1>1 DEF InfoInv, Entered
    <3>5. at[c] = "wait_show" /\ c \in CrtcClients /\ ret = 0 => Restorable(c)
      BY <1>1 DEF InfoInv, Restorable
    <3> QED BY <2>1, <3>1, <3>2, <3>3, <3>4, <3>5 DEF InfoInv
  <2>4. AloneInv(c)' BY <1>1, <1>2, <2>1 DEF AloneInv
  <2> QED BY <2>2, <2>3, <2>4
<1> QED BY <1>3, <1>4 DEF Reply

\* Steps that serve nobody.
LEMMA AsideSessions ==
  ASSUME RoundsInv, \A d \in Clients : SessionInv(d), UNCHANGED clientVars,
         \/ Bind \/ Check \/ Poll \/ Interrupted \/ Accept \/ Scan \/ CloseListener \/ Unlink \/ Restart
         \/ Read /\ req[slot[i]] = "none"
  PROVE  \A d \in Clients : SessionInv(d)'
<1> USE DEF RoundsInv, ServerPart
<1>1. pc \notin Work /\ pc' \notin Work
  BY DEF Bind, Check, Poll, Interrupted, Accept, Scan, CloseListener, Unlink, Restart, Read,
     CountDown, NextRound, ProcessEnds, Gone, Work
<1>2. \A d \in Clients : ~Working(d) /\ ~Working(d)' BY <1>1 DEF Working
<1>3. req' = req /\ resp' = resp /\ crtc' = crtc /\ dropped \subseteq dropped'
  BY DEF Bind, Check, Poll, Interrupted, Accept, Scan, CloseListener, Unlink, Restart, Read,
     CloseSlot, ProcessEnds, protoVars, socketVars, deviceVars
<1>4. ASSUME NEW j \in Used, slot[j] \notin dropped'
      PROVE  j \in Used' /\ slot'[j] = slot[j] /\ info'[j] = info[j]
  <2>1. slot[j] \in Clients /\ j \in Slots BY UsedIs
  <2>2. CASE Bind \/ Check \/ Poll \/ Interrupted \/ Scan \/ CloseListener
    <3>1. slot' = slot /\ info' = info
      BY <2>2 DEF Bind, Check, Poll, Interrupted, Scan, CloseListener
    <3> QED BY <3>1 DEF Used, Slots
  <2>3. CASE Accept
    <3>1. info' = info BY <2>3 DEF Accept
    <3>2. CASE Slots \ Used = {}
      <4>1. slot' = slot BY <2>3, <3>2 DEF Accept
      <4> QED BY <3>1, <4>1 DEF Used, Slots
    <3>3. CASE Slots \ Used # {}
      <4>1. slot' = [slot EXCEPT ![Min(Slots \ Used)] = Head(backlog)] BY <2>3, <3>3 DEF Accept
      <4>2. Min(Slots \ Used) \in Slots \ Used
        <5>1. Slots \ Used \subseteq Nat BY UsedIs
        <5> QED BY <3>3, <5>1, LeastNatural
      <4>3. slot'[j] = slot[j] BY <2>1, <4>1, <4>2 DEF ServerTypeOK
      <4> QED BY <2>1, <3>1, <4>3, Strangers DEF Used, Slots
    <3> QED BY <3>2, <3>3
  <2>4. CASE Unlink BY <1>4, <2>4 DEF Unlink, ProcessEnds
  <2>5. CASE Restart BY <2>5 DEF Restart, SlotsInv
  <2>6. CASE Read /\ req[slot[i]] = "none"
    <3>1. dropped' = dropped \cup {slot[i]} /\ slot' = [slot EXCEPT ![i] = NoClient] /\ info' = info
      BY <2>6 DEF Read, CloseSlot
    <3>2. j # i BY <1>4, <3>1
    <3>3. slot'[j] = slot[j] BY <2>1, <3>1, <3>2 DEF ServerTypeOK
    <3> QED BY <2>1, <3>1, <3>3, Strangers DEF Used, Slots
  <2> QED BY <2>2, <2>3, <2>4, <2>5, <2>6
<1>5. ASSUME NEW d \in Clients PROVE SessionInv(d)'
  <2>1. \A j \in Used : slot[j] = d =>
          d \in dropped' \/ (j \in Used' /\ slot'[j] = d /\ info'[j] = info[j])
    BY <1>4
  <2>2. SessionInv(d) OBVIOUS
  <2> HIDE DEF RoundsInv, ServerPart
  <2> QED BY <1>2, <1>3, <2>1, <2>2, SessionAside
<1> QED BY <1>5

\* Steps that serve the client of slot i.
LEMMA ServedSessions ==
  ASSUME RoundsInv, ScreenInv, \A d \in Clients : SessionInv(d), UNCHANGED clientVars,
         \/ Request \/ Reply
         \/ Read /\ req[slot[i]] # "none"
  PROVE  \A d \in Clients : SessionInv(d)'
<1>1. PICK c \in Clients : /\ c = slot[i] /\ i \in Used /\ i \in Slots
                           /\ \A j \in Used : slot[j] = c => j = i
  <2>1. pc \in {"read"} \cup Work
    BY DEF Request, Auth, CrtcSave, CrtcSet, PlaneSet, CrtcStop, PlaneStop, Read, Reply, Work
  <2>2. i \in Used BY <2>1 DEF RoundsInv, ServerPart, RoundInv
  <2> QED BY <2>2, UsedIs DEF RoundsInv, ServerPart, SlotsInv
<1>2. \A d \in Clients : d # c => ~Working(d) BY <1>1 DEF Working
<1>3. CASE Request
  <2>1. SessionInv(c)' /\ (pc \in {"crtc_save", "crtc_set", "crtc_stop"} => c \in CrtcClients)
    BY <1>1, <1>3, RequestSession
  <2>2. /\ UNCHANGED <<dropped, slot, req, resp>> /\ Used' = Used
        /\ \A j \in Slots : j # i => info'[j] = info[j]
        /\ \A d \in Clients : d # c => ~Working(d)'
        /\ pc \notin {"crtc_save", "crtc_set", "crtc_stop"} => crtc' = crtc
    <3>1. UNCHANGED <<socketVars, slot, i>>
      BY <1>3 DEF Request, Auth, CrtcSave, CrtcSet, PlaneSet, CrtcStop, PlaneStop, sameLoop
    <3>2. \A j \in Slots : j # i => info'[j] = info[j]
      BY <1>1, <1>3
      DEF Request, Auth, CrtcSave, CrtcSet, PlaneSet, CrtcStop, PlaneStop, RoundsInv, ServerPart,
          ServerTypeOK
    <3>3. pc \notin {"crtc_save", "crtc_set", "crtc_stop"} => crtc' = crtc
      BY <1>3 DEF Request, Auth, CrtcSave, CrtcSet, PlaneSet, CrtcStop, PlaneStop, deviceVars
    <3> QED BY <1>1, <3>1, <3>2, <3>3 DEF socketVars, Used, Slots, Working
  <2>3. ASSUME NEW d \in Clients, d # c PROVE SessionInv(d)'
    <3>1. Alone(d) => crtc' = crtc BY <2>1, <2>2, <2>3 DEF Alone
    <3>2. \A j \in Used : slot[j] = d => j \in Used' /\ slot'[j] = d /\ info'[j] = info[j]
      BY <1>1, <2>2, <2>3 DEF Used
    <3> QED BY <1>2, <2>2, <2>3, <3>1, <3>2, SessionAside
  <2> QED BY <2>1, <2>3
<1>4. CASE Reply
  <2>1. SessionInv(c)' BY <1>1, <1>4, ReplySession
  <2>2. UNCHANGED <<req, info, crtc>> BY <1>4 DEF Reply, deviceVars
  <2>3. ASSUME NEW d \in Clients, d # c PROVE SessionInv(d)'
    <3>1. CASE ProcessEnds("sigpipe") /\ resp' = resp
      <4>1. ~Working(d)' /\ dropped \subseteq dropped' /\ \A j \in Used : slot[j] \in dropped'
        BY <3>1 DEF ProcessEnds, Working, Work
      <4> QED BY <1>2, <2>2, <2>3, <3>1, <4>1, SessionAside
    <3>2. CASE /\ resp' = [resp EXCEPT ![c] = IF ret = 0 THEN "DRM_OK" ELSE "DRM_ERROR"]
               /\ CountDown(i + 1)
               /\ UNCHANGED <<dropped, slot, backlog>>
      <4>1. ~Working(d)' BY <3>2 DEF CountDown, NextRound, Working, Work
      <4>2. resp'[d] = resp[d] BY <2>3, <3>2 DEF RoundsInv, ServerPart, ProtoTypeOK
      <4>3. Used' = Used BY <3>2 DEF Used, Slots
      <4> QED BY <1>2, <2>2, <2>3, <3>2, <4>1, <4>2, <4>3, SessionAside
    <3> QED BY <1>1, <1>4, <3>1, <3>2 DEF Reply
  <2> QED BY <2>1, <2>3
<1>5. CASE Read /\ req[c] # "none"
  <2>1. SessionInv(c)' /\ \A d \in Clients : d # c => req'[d] = req[d] /\ ~Working(d)'
    BY <1>1, <1>5, ReadSession
  <2>2. UNCHANGED <<resp, info, crtc, slot, dropped>> /\ Used' = Used
    BY <1>1, <1>5 DEF Read, deviceVars, Used, Slots
  <2>3. ASSUME NEW d \in Clients, d # c PROVE SessionInv(d)'
    BY <1>2, <2>1, <2>2, <2>3, SessionAside
  <2> QED BY <2>1, <2>3
<1> QED BY <1>1, <1>3, <1>4, <1>5

LEMMA ServerScreen ==
  ASSUME IInv, ServerStep
  PROVE  ScreenInv'
<1> USE DEF IInv, ScreenInv
<1>1. fbs' = fbs
  BY DEF ServerStep, Server, SigInt, Restart, Bind, Check, Poll, Interrupted, Accept, Scan, Read,
     Request, Auth, CrtcSave, CrtcSet, PlaneSet, CrtcStop, PlaneStop, Reply, CloseListener, Unlink,
     protoVars, deviceVars
<1>2. CASE UNCHANGED <<crtc, plane, info>> BY <1>1, <1>2 DEF Slots
<1>3. CASE Restart
  <2>1. UNCHANGED <<crtc, plane>> BY <1>3 DEF Restart, protoVars, deviceVars
  <2>2. \A j \in Slots : info'[j].saved = "junk" BY <1>3 DEF Restart
  <2> QED BY <1>1, <2>1, <2>2 DEF Slots
<1>4. CASE Request
  <2>1. PICK c \in Clients : c = slot[i] /\ i \in Slots /\ SessionInv(c) /\ Working(c)
    <3>1. pc \in Work
      BY <1>4 DEF Request, Auth, CrtcSave, CrtcSet, PlaneSet, CrtcStop, PlaneStop, Work
    <3>2. i \in Used BY <3>1 DEF RoundsInv, ServerPart, RoundInv
    <3> QED BY <3>1, <3>2, UsedIs DEF RoundsInv, ServerPart, SessionInv, Working
  <2>2. pc \in {"crtc_set", "crtc_stop"} => c \in CrtcClients
    BY <2>1 DEF SessionInv, SyncInv
  <2>3. plane' \in fbs \cup {"off"} /\ crtc' \in (fbs \cap CrtcClients) \cup {"console", "off"}
    <3>1. "null" \notin fbs /\ "junk" \notin fbs /\ "console" \notin fbs
      BY Strangers DEF RoundsInv, ServerPart, ProtoTypeOK
    <3>2. CASE Auth \/ CrtcSave \/ PlaneSet \/ PlaneStop
      BY <2>1, <3>2 DEF Auth, CrtcSave, PlaneSet, PlaneStop, deviceVars
    <3>3. CASE CrtcSet BY <2>1, <2>2, <3>3, Strangers DEF CrtcSet, CanShow
    <3>4. CASE CrtcStop
      <4>1. info[i].saved \in CrtcClients \cup {"console", "off", "null", "junk"} BY <2>1
      <4> QED BY <3>1, <3>4, <4>1 DEF CrtcStop, CanShow
    <3> QED BY <1>4, <3>2, <3>3, <3>4 DEF Request
  <2>4. CrtcClients = {} => crtc' = crtc
    BY <1>4, <2>2 DEF Request, Auth, CrtcSave, CrtcSet, PlaneSet, CrtcStop, PlaneStop, deviceVars
  <2>5. \A j \in Slots : info'[j].saved \in CrtcClients \cup {"console", "off", "null", "junk"}
    <3>1. info \in [Slots -> [owner : Clients \cup {NoClient},
                              saved : Clients \cup {"console", "off", "null", "junk"}]]
      BY DEF RoundsInv, ServerPart, ServerTypeOK
    <3>2. \/ info' = info
          \/ info' = [info EXCEPT ![i] = [owner |-> c, saved |-> "null"]]
          \/ info' = [info EXCEPT ![i].saved = crtc]
      BY <1>4, <2>1 DEF Request, Auth, CrtcSave, CrtcSet, PlaneSet, CrtcStop, PlaneStop
    <3> QED BY <2>1, <3>1, <3>2
  <2> QED BY <1>1, <2>3, <2>4, <2>5 DEF Slots
<1> QED BY <1>2, <1>3, <1>4
    DEF ServerStep, Server, SigInt, Bind, Check, Poll, Interrupted, Accept, Scan, Read, Reply,
        CloseListener, Unlink, protoVars, deviceVars

LEMMA ServerPath ==
  ASSUME IInv, ServerStep
  PROVE  PathInv'
<1> SUFFICES ASSUME faults = 0
             PROVE  pc' \notin {"sigpipe", "bind_failed"} /\ (pc' \in {"bind", "exit"} => ~path')
  BY DEF PathInv, ServerStep, clientVars
<1> USE DEF IInv, PathInv
<1>1. CASE Reply
  <2>1. PICK c \in Clients : c = slot[i] /\ SessionInv(c) /\ Working(c) /\ c \notin dropped
    <3>1. pc = "reply" BY <1>1 DEF Reply
    <3>2. i \in Used BY <3>1 DEF RoundsInv, ServerPart, RoundInv, Work
    <3> QED BY <3>1, <3>2, UsedIs DEF RoundsInv, ServerPart, PlaceInv, SessionInv, Working, Work
  <2>2. at[c] \in Waits BY <2>1 DEF SessionInv, SyncInv
  <2>3. link[c] # "closed" BY <2>2 DEF RoundsInv, OwnInv, HeldInv, Talking
  <2> QED BY <1>1, <2>1, <2>3 DEF Reply, CountDown, NextRound
<1>2. CASE Unlink BY <1>2 DEF Unlink, ProcessEnds
<1>3. CASE Read
  <2>1. pc' \notin {"sigpipe", "bind_failed", "bind", "exit"}
    <3>1. pc = "read" /\ i \in Used BY <1>3 DEF Read, RoundsInv, ServerPart, RoundInv
    <3>2. slot[i] \in Clients BY <3>1, UsedIs DEF RoundsInv, ServerPart
    <3>3. req[slot[i]] \in Commands \cup {"none"} BY <3>2 DEF RoundsInv, ServerPart, ProtoTypeOK
    <3> QED BY <1>3, <3>3 DEF Read, Handler, Commands
  <2> QED BY <2>1
<1>4. CASE Bind \/ Check \/ Poll \/ Interrupted \/ Accept \/ Scan \/ Request \/ CloseListener
           \/ SigInt \/ Restart
  BY <1>4
  DEF Bind, Check, Poll, Interrupted, Accept, Scan, Request, Auth, CrtcSave, CrtcSet, PlaneSet,
      CrtcStop, PlaneStop, Result, CloseListener, SigInt, Restart, CountDown, NextRound, Gone,
      protoVars, socketVars
<1> QED BY <1>1, <1>2, <1>3, <1>4 DEF ServerStep, Server

LEMMA IInvNext == IInv /\ [Next]_vars => IInv'
<1> SUFFICES ASSUME IInv, [Next]_vars PROVE IInv'
  OBVIOUS
<1>1. RoundsInv' BY RoundsNext DEF IInv
<1>2. \A d \in Clients : SessionInv(d) BY DEF IInv, SessionInv
<1>3. CASE ServerStep
  <2>1. UNCHANGED clientVars BY <1>3 DEF ServerStep
  <2>2. CASE SigInt
    <3>1. UNCHANGED <<pc, slot, i, info, ret, dropped, req, resp, crtc>>
      BY <2>2 DEF SigInt, protoVars, socketVars, deviceVars
    <3> QED BY <1>1, <1>2, <1>3, <2>1, <3>1, SessionStays, ServerScreen, ServerPath
        DEF clientVars, IInv, SessionInv
  <2>3. CASE ~SigInt
    <3>1. \A d \in Clients : SessionInv(d)'
      BY <1>2, <1>3, <2>1, <2>3, AsideSessions, ServedSessions DEF ServerStep, Server, IInv
    <3> QED BY <1>1, <1>3, <3>1, ServerScreen, ServerPath DEF IInv, SessionInv
  <2> QED BY <2>2, <2>3
<1>4. CASE \E c \in Clients : ClientStep(c) BY <1>4, ClientSessions
<1>5. CASE UNCHANGED vars
  <2>1. UNCHANGED <<pc, slot, i, info, ret, dropped, req, resp, crtc, plane, fbs, path>>
        /\ UNCHANGED clientVars
    BY <1>5 DEF vars, protoVars, socketVars, deviceVars, serverVars
  <2>2. \A d \in Clients : SessionInv(d)' BY <1>2, <2>1, SessionStays DEF clientVars
  <2>3. ScreenInv' /\ PathInv' BY <2>1 DEF IInv, ScreenInv, PathInv, Slots, clientVars
  <2> QED BY <1>1, <2>2, <2>3 DEF IInv, SessionInv
<1> QED BY <1>3, <1>4, <1>5 DEF Next

LEMMA Init_IInv == Init => IInv
<1> SUFFICES ASSUME Init PROVE IInv
  OBVIOUS
<1>1. RoundsInv BY Init_RoundsInv
<1> USE DEF Init, ProtoInit, ServerInit, ClientInit
<1>2. ScreenInv BY DEF ScreenInv
<1>3. PathInv BY DEF PathInv
<1>4. ASSUME NEW c \in Clients PROVE SyncInv(c) /\ InfoInv(c) /\ AloneInv(c)
  <2>1. ~Working(c) BY DEF Working, Work
  <2>2. c # "console" BY Strangers
  <2> QED BY <2>1, <2>2 DEF SyncInv, InfoInv, AloneInv, Trusted, Stoppable, Waits, Commands
<1> QED BY <1>1, <1>2, <1>3, <1>4 DEF IInv

LEMMA AlwaysIInv == Spec => []IInv
BY Init_IInv, IInvNext, PTL DEF Spec

\* The server never shows, restores or removes for a client on the word of another:
\* the entry of the slot it works on was filled by the connection that is in it now,
\* a CRTC that is to be restored was saved, and no connection is lost between the
\* queue and the slots, however clients come, go and are killed.
THEOREM WorksOnItsOwn == Spec => []InfoIsOwn
<1>1. ASSUME IInv PROVE InfoIsOwn
  <2> USE <1>1 DEF IInv
  <2>1. ASSUME pc \in Work PROVE /\ i \in Used /\ slot[i] \in Clients
                                 /\ Working(slot[i]) /\ InfoInv(slot[i])
    <3>1. i \in Used BY <2>1 DEF RoundsInv, ServerPart, RoundInv
    <3> QED BY <2>1, <3>1, UsedIs DEF RoundsInv, ServerPart, Working
  <2>2. pc \in {"crtc_save", "crtc_set", "plane_set", "crtc_stop", "plane_stop"} =>
          info[i].owner = slot[i]
    BY <2>1 DEF InfoInv, Work
  <2>3. pc = "crtc_stop" => info[i].saved \notin {"null", "junk"}
    BY <2>1 DEF InfoInv, Good, Work
  <2>4. {slot[j] : j \in Used} =
          {c \in Clients : link[c] # "new" /\ c \notin dropped \cup ToSet(backlog)}
    BY UsedIs DEF RoundsInv, ServerPart, PlaceInv
  <2>5. \A j, k \in Used : slot[j] = slot[k] => j = k
    BY DEF RoundsInv, ServerPart, SlotsInv
  <2> QED BY <2>2, <2>3, <2>4, <2>5 DEF InfoIsOwn
<1> QED BY <1>1, AlwaysIInv, PTL

\* When every client has ended its session regularly, and at most one of them used
\* the CRTC, the console is back and the plane off; and as long as no answer is late
\* and nobody is killed the server is not, and can be started again.
THEOREM ScreenRestored == Spec => []LeftAsFound
<1>1. ASSUME IInv PROVE LeftAsFound
  <2> USE <1>1 DEF IInv
  <2>1. ASSUME Cardinality(CrtcClients) <= 1, \A c \in Clients : at[c] = "done" /\ result[c] = "ok"
        PROVE  crtc = "console" /\ plane = "off"
    <3>1. \A c \in Clients : c \notin fbs
      BY <2>1 DEF RoundsInv, OwnInv, HeldInv
    <3>2. plane = "off" BY <3>1 DEF ScreenInv, RoundsInv, ServerPart, ProtoTypeOK
    <3>3. CASE CrtcClients = {} BY <3>2, <3>3 DEF ScreenInv
    <3>4. CASE CrtcClients # {}
      <4>1. IsFiniteSet(CrtcClients) BY ProtoAssumption
      <4>2. Cardinality(CrtcClients) \in Nat /\ Cardinality(CrtcClients) # 0
        BY <3>4, <4>1, FS_CardinalityType, FS_EmptySet
      <4>3. Cardinality(CrtcClients) = 1 BY <2>1, <4>2
      <4>4. PICK c : CrtcClients = {c} BY <4>1, <4>3, FS_Singleton
      <4>5. c \in Clients BY <4>4 DEF Clients
      <4>6. Alone(c) BY <2>1, <4>4, <4>5 DEF Alone
      <4> QED BY <2>1, <3>2, <4>5, <4>6 DEF AloneInv
    <3> QED BY <3>3, <3>4
  <2>2. faults = 0 => pc # "sigpipe" /\ (pc = "bind" => ~path) BY DEF PathInv
  <2> QED BY <2>1, <2>2 DEF LeftAsFound
<1> QED BY <1>1, AlwaysIInv, PTL
=============================================================================
