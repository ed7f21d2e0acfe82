---------------------------- MODULE LiveSession -----------------------------
(***************************************************************************)
(* The live session of one camera: the SESSION# item, the LIVE_IMG# items  *)
(* and their objects under live/, and the invocations of POST, DELETE and  *)
(* GET /v1/sites/{site_id}/cameras/{camera_id}/live-session.  The uploads  *)
(* that write the live images are in Ingest, which extends this module.    *)
(*                                                                         *)
(* A step is one remote call, with the code up to the next one.  A client  *)
(* calls its endpoint again and again; what it was answered is not kept.   *)
(* Time is in ticks, the resolution of the timestamps; the lengths are     *)
(* scaled down.  Image times start at 1: 0 stands for "no image".          *)
(***************************************************************************)
EXTENDS Naturals, FiniteSetsExt

CONSTANTS
    Posters, Deleters, Viewers,   \* clients of POST, DELETE and GET
    SessionLength,      \* the 10 minutes of a session
    LiveTtl,            \* the hour after which an item's ttl is over
    LiveObjectLife,     \* the day after which a live object expires
    MaxTime,            \* bound on the clock
    Faults              \* the calls that may raise, of "read" and "write"

ASSUME SessionAssumption ==
    /\ {SessionLength, LiveTtl, LiveObjectLife, MaxTime} \subseteq Nat \ {0}
    /\ "none" \notin Posters
    /\ Faults \subseteq {"read", "write"}

VARIABLES
    now,
    session,       \* the SESSION# item
    liveRecords,   \* the capture times of the LIVE_IMG# items
    liveObjects,   \* the capture times of the objects under live/
    post,          \* [Posters -> step]
    stamp,         \* [Posters -> the local variable now]
    delete,        \* [Deleters -> step]
    view,          \* [Viewers -> step]
    shown          \* [Viewers -> captured_at of the image it was shown]

live == <<liveRecords, liveObjects>>
viewers == <<view, shown>>
sessionVars == <<now, session, live, post, stamp, delete, viewers>>

(* A session is identified with the client that created it.                *)
NoSession == [created_by |-> "none", expires_at |-> 0]

Exists(s) == s # NoSession
Active(s) == Exists(s) /\ s.expires_at > now

-----------------------------------------------------------------------------
(* _handle_post                                                            *)

(* get_live_session: 409 while a session is active, 500 when it raises.    *)
PostLoad(u) ==
    /\ post[u] = "idle" /\ ~Active(session)
    /\ post' = [post EXCEPT ![u] = "put"]
    /\ stamp' = [stamp EXCEPT ![u] = now]
    /\ UNCHANGED <<now, session, live, delete, viewers>>

MutantMayPut(u) == TRUE

(* attribute_not_exists(SK) OR expires_at <= :now                          *)
MayPut(u) == ~Exists(session) \/ session.expires_at <= stamp[u]

(* put_live_session: 201, or 409 when the condition fails -- as it does on *)
(* the SDK's retry of a put whose reply was lost -- or 500.                *)
PostPut(u) ==
    /\ post[u] = "put"
    /\ post' = [post EXCEPT ![u] = "idle"]
    /\ stamp' = [stamp EXCEPT ![u] = 0]
    /\ \/ /\ MayPut(u)
          /\ session' = [created_by |-> u, expires_at |-> stamp[u] + SessionLength]
       \/ (~MayPut(u) \/ "write" \in Faults) /\ UNCHANGED session
    /\ UNCHANGED <<now, live, delete, viewers>>

-----------------------------------------------------------------------------
(* _handle_delete                                                          *)

(* 404 unless a session is active.                                         *)
DeleteLoad(d) ==
    /\ delete[d] = "idle" /\ Active(session)
    /\ delete' = [delete EXCEPT ![d] = "delete"]
    /\ UNCHANGED <<now, session, live, post, stamp, viewers>>

(* delete_live_session, without a condition: whatever session is there now. *)
DeleteWrite(d) ==
    /\ delete[d] = "delete"
    /\ delete' = [delete EXCEPT ![d] = "idle"]
    /\ \/ session' = NoSession
       \/ "write" \in Faults /\ UNCHANGED session
    /\ UNCHANGED <<now, live, post, stamp, viewers>>

-----------------------------------------------------------------------------
(* _handle_get                                                             *)

(* "none" unless a session is active.                                      *)
ViewLoad(v) ==
    /\ view[v] = "idle"
    /\ view' = [view EXCEPT ![v] = IF Active(session) THEN "image" ELSE "idle"]
    /\ shown' = [shown EXCEPT ![v] = 0]
    /\ UNCHANGED <<now, session, live, post, stamp, delete>>

(* get_latest_live_img_record and the presigned URL.  No check of the      *)
(* object; a Query that raises leaves the image out.                       *)
ViewImage(v) ==
    /\ view[v] = "image"
    /\ view' = [view EXCEPT ![v] = "idle"]
    /\ \/ shown' = [shown EXCEPT ![v] = Max(liveRecords \cup {0})]
       \/ "read" \in Faults /\ UNCHANGED shown
    /\ UNCHANGED <<now, session, live, post, stamp, delete>>

-----------------------------------------------------------------------------
(* Time: the table's TTL sweep and the bucket's lifecycle rule take what   *)
(* is due, some time later.                                                *)

Tick ==
    /\ now < MaxTime
    /\ now' = now + 1
    /\ UNCHANGED <<session, live, post, stamp, delete, viewers>>

SweepSession ==
    /\ Exists(session) /\ session.expires_at + LiveTtl <= now
    /\ session' = NoSession
    /\ UNCHANGED <<now, live, post, stamp, delete, viewers>>

SweepLiveRecord ==
    /\ \E t \in liveRecords : t + LiveTtl <= now /\ liveRecords' = liveRecords \ {t}
    /\ UNCHANGED <<now, session, liveObjects, post, stamp, delete, viewers>>

ExpireLiveObject ==
    /\ \E t \in liveObjects : t + LiveObjectLife <= now /\ liveObjects' = liveObjects \ {t}
    /\ UNCHANGED <<now, session, liveRecords, post, stamp, delete, viewers>>

-----------------------------------------------------------------------------
SessionInit ==
    /\ now = 1 /\ session = NoSession
    /\ liveRecords = {} /\ liveObjects = {}
    /\ post = [u \in Posters |-> "idle"]
    /\ stamp = [u \in Posters |-> 0]
    /\ delete = [d \in Deleters |-> "idle"]
    /\ view = [v \in Viewers |-> "idle"]
    /\ shown = [v \in Viewers |-> 0]

Expiry == SweepSession \/ SweepLiveRecord \/ ExpireLiveObject

-----------------------------------------------------------------------------
(* Properties                                                              *)

SessionTypeOK ==
    /\ now \in 1..MaxTime
    /\ session \in [created_by : Posters \cup {"none"}, expires_at : Nat]
    /\ liveRecords \subseteq 1..MaxTime /\ liveObjects \subseteq 1..MaxTime
    /\ post \in [Posters -> {"idle", "put"}]
    /\ stamp \in [Posters -> 0..MaxTime]
    /\ delete \in [Deleters -> {"idle", "delete"}]
    /\ view \in [Viewers -> {"idle", "image"}]
    /\ shown \in [Viewers -> 0..MaxTime]

Lease == INSTANCE SessionLease WITH Users <- Posters, holder <- session.created_by,
                                    until <- session.expires_at

(* One session per camera at a time: a POST never takes the place of a     *)
(* session that runs, however many of them saw none when they looked.      *)
OneSession == Lease!Spec

(* A viewer is shown an image that is there: the item of a live image is   *)
(* written after its object and is gone, or too old, before the object is. *)
ShownImageResolves ==
    \A v \in Viewers :
        shown[v] # 0 => shown[v] \in liveObjects \/ shown[v] + LiveObjectLife <= now
=============================================================================
