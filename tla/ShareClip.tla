----------------------------- MODULE ShareClip -----------------------------
(* ShareClip (shareclip/app.py): clips of one profile, newest first, in a    *)
(* state file that is replaced as a whole, and beside it one file for every  *)
(* clip that is an image or an attachment.  It runs as a threaded server of  *)
(* its own, where LOCK keeps the requests apart, or inside AfterClaw, where  *)
(* shareclip_dispatch_lock is held for the whole of a request (app.py 8943). *)
EXTENDS Filter, FiniteSets

CONSTANTS
    Workers,
    Clips,        \* clips that may be sent; each gets an id and a file name of its own
    HasFile,      \* those of them that are images or attachments
    Legacy,       \* clips of an older installation
    Ports, Ids,   \* values of the two settings
    None,
    MAX_HISTORY,
    MaxRequests,  \* bound: requests
    MaxFaults     \* bound: crashes, failing writes, reads and unlinks

ASSUME ShareClipAssumption ==
    /\ HasFile \subseteq Clips
    /\ None \notin Clips \cup Workers \cup Ports \cup Ids
    /\ MAX_HISTORY \in Nat \ {0}
    /\ Legacy \in Seq(Clips) /\ Len(Legacy) <= MAX_HISTORY

VARIABLES
    embedded,   \* inside AfterClaw, or a server of its own
    dispatch,   \* holder of shareclip_dispatch_lock, or None
    lock,       \* holder of LOCK, or None
    disk,       \* state.json: is it there, and the clips it lists
    assets,     \* clips whose file is in images/ or files/, but for
    left,       \* those whose file was to be removed and could not be
    config,     \* runtime_config
    stored,     \* config.json
    frame,      \* the requests under way
    made, faults,
    sent,       \* clips whose sending was answered with ok, oldest first
    deleted,    \* clips whose deletion was answered with ok
    named,      \* per setting, the value the last answered request named
    misread,    \* state.json could not be read at some time
    broken      \* a request ended half-way

vars == <<embedded, dispatch, lock, disk, assets, left, config, stored, frame, made,
          faults, sent, deleted, named, misread, broken>>
ghosts == <<sent, deleted, named>>

Idle == [pc |-> "idle", op |-> "none", clip |-> None, gone |-> {}, list |-> << >>,
         todo |-> {}, setting |-> [port |-> None, default_id |-> None]]

Init ==
    /\ embedded \in BOOLEAN
    /\ dispatch = None /\ lock = None
    /\ disk = [there |-> FALSE, list |-> << >>]
    /\ assets = {} /\ left = {}
    /\ config \in [port : Ports, default_id : Ids] /\ stored = config
    /\ frame = [w \in Workers |-> Idle]
    /\ made = 0 /\ faults = 0
    /\ sent = << >> /\ deleted = {}
    /\ named = config
    /\ misread = FALSE /\ broken = FALSE

ClipsOf(list) == {list[i] : i \in DOMAIN list}
Fault == faults < MaxFaults /\ faults' = faults + 1

Goes(w, f) == frame' = [frame EXCEPT ![w] = f]
Ends(w)    == Goes(w, Idle) /\ dispatch' = IF dispatch = w THEN None ELSE dispatch
Frees(w)   == lock' = IF lock = w THEN None ELSE lock

\* An exception: the locks are released, the answer is an error.
Fails(w) == Fault /\ Ends(w) /\ Frees(w) /\ broken' = TRUE

-----------------------------------------------------------------------------
(* A request is dispatched (_dispatch_shareclip_flask, or Flask itself).     *)
\* Mutant: without shareclip_dispatch_lock.
BeginAtOnce(w, f) ==
    /\ frame[w].pc = "idle" /\ made < MaxRequests
    /\ made' = made + 1
    /\ Goes(w, f)
    /\ UNCHANGED <<embedded, dispatch, lock, disk, assets, left, config, stored, faults, ghosts,
                   misread, broken>>

Begin(w, f) ==
    /\ frame[w].pc = "idle" /\ made < MaxRequests
    /\ made' = made + 1
    /\ embedded => dispatch = None
    /\ dispatch' = IF embedded THEN w ELSE dispatch
    /\ Goes(w, f)
    /\ UNCHANGED <<embedded, lock, disk, assets, left, config, stored, faults, ghosts, misread, broken>>

\* A clip that is new: ids are never used twice (make_record_id).
set_clip(w) ==
    \E c \in Clips \ (ClipsOf(Legacy) \cup {frame[v].clip : v \in Workers} \cup assets \cup left
                      \cup ClipsOf(disk.list) \cup ClipsOf(sent)) :
      Begin(w, [Idle EXCEPT !.pc = IF c \in HasFile THEN "asset" ELSE "lock",
                            !.op = "set", !.clip = c])
bulk_delete_history(w) ==
    \E g \in SUBSET ClipsOf(disk.list) : g # {} /\ Begin(w, [Idle EXCEPT !.pc = "lock", !.op = "delete", !.gone = g])
\* get_clip, get_history, clip_raw: reading also writes the state file.
get_clip(w)   == Begin(w, [Idle EXCEPT !.pc = "lock", !.op = "get"])

\* image.save, upload_file.save: before LOCK is taken.
SaveAsset(w) ==
    /\ frame[w].pc = "asset"
    /\ \/ /\ assets' = assets \cup {frame[w].clip}
          /\ Goes(w, [frame[w] EXCEPT !.pc = "lock"])
          /\ UNCHANGED <<dispatch, lock, faults, broken>>
       \/ assets' \in {assets, assets \cup {frame[w].clip}} /\ Fails(w)
    /\ UNCHANGED <<embedded, disk, left, config, stored, made, ghosts, misread>>

(* load_profile_state, with LOCK held: a file that is missing or cannot be   *)
(* read is replaced by the clips of the older installation; the result is    *)
(* saved in either case.                                                     *)
Newest(list) == SubSeq(list, 1, IF Len(list) < MAX_HISTORY THEN Len(list) ELSE MAX_HISTORY)
load_profile_state(readable) ==
    Newest(IF disk.there /\ readable THEN disk.list ELSE Legacy)

\* What the request makes of the list it has loaded.
Edited(f, list) ==
    CASE f.op = "set"    -> Newest(<<f.clip>> \o list)
      [] f.op = "delete" -> Filter(list, Clips \ f.gone)
      [] f.op = "get"    -> list

\* Mutant: without LOCK.
LoadUnlocked(w) ==
    /\ frame[w].pc = "lock" /\ frame[w].op # "get"
    /\ LET list == load_profile_state(TRUE)
           new  == Edited(frame[w], list)
           old  == ClipsOf(list) \ ClipsOf(new)
       IN  /\ disk' = [there |-> TRUE, list |-> list]
           /\ Goes(w, [frame[w] EXCEPT !.pc = "edit", !.list = new, !.todo = old, !.gone = old])
    /\ UNCHANGED <<embedded, dispatch, lock, assets, left, config, stored, made, faults, ghosts,
                   misread, broken>>

Load(w) ==
    /\ frame[w].pc = "lock" /\ lock = None
    /\ \E readable \in BOOLEAN :
         LET list == load_profile_state(readable)
             new  == Edited(frame[w], list)
             old  == ClipsOf(list) \ ClipsOf(new)
         IN  /\ IF readable THEN UNCHANGED <<misread, faults>> ELSE Fault /\ misread' = TRUE
             /\ disk' = [there |-> TRUE, list |-> list]
             /\ IF frame[w].op = "get"
                THEN Ends(w) /\ UNCHANGED lock
                ELSE /\ lock' = w
                     /\ Goes(w, [frame[w] EXCEPT !.pc = "edit", !.list = new, !.todo = old,
                                                 !.gone = old])
                     /\ UNCHANGED dispatch
    /\ UNCHANGED <<embedded, assets, left, config, stored, made, ghosts, broken>>

\* The save at the end of the load fails: nothing has changed.
LoadFails(w) ==
    /\ frame[w].pc = "lock" /\ lock = None
    /\ Fails(w)
    /\ UNCHANGED <<embedded, disk, assets, left, config, stored, made, ghosts, misread>>

\* Mutant: the folder is not the one the file is in.
delete_nothing(w) ==
    /\ frame[w].pc = "edit"
    /\ \E c \in frame[w].todo : Goes(w, [frame[w] EXCEPT !.todo = @ \ {c}])
    /\ UNCHANGED <<embedded, dispatch, lock, disk, assets, left, config, stored, made, faults, ghosts,
                   misread, broken>>

\* delete_asset, for one of the clips that leave the list.  An unlink that
\* fails is passed over: the request goes on, the file stays.
delete_asset(w) ==
    /\ frame[w].pc = "edit"
    /\ \E c \in frame[w].todo :
         /\ assets' = assets \ {c}
         /\ \/ UNCHANGED <<left, faults>>
            \/ c \in assets /\ Fault /\ left' = left \cup {c}
         /\ Goes(w, [frame[w] EXCEPT !.todo = @ \ {c}])
    /\ UNCHANGED <<embedded, dispatch, lock, disk, config, stored, made, ghosts, misread, broken>>

(* save_profile_state: a temporary file, renamed over the state file.        *)
save_profile_state(w) ==
    /\ frame[w].pc = "edit" /\ frame[w].todo = {}
    /\ \/ /\ disk' = [there |-> TRUE, list |-> frame[w].list]
          /\ sent' = IF frame[w].op = "set" THEN Append(sent, frame[w].clip) ELSE sent
          /\ deleted' = IF frame[w].op = "delete" THEN deleted \cup frame[w].gone ELSE deleted
          /\ Ends(w) /\ Frees(w)
          /\ UNCHANGED <<faults, broken>>
       \/ Fails(w) /\ UNCHANGED <<disk, sent, deleted>>
    /\ UNCHANGED <<embedded, assets, left, config, stored, made, named, misread>>

-----------------------------------------------------------------------------
(* set_config: what the body does not name is taken from runtime_config      *)
(* before LOCK is taken.                                                     *)
set_config(w) ==
    \E p \in Ports \cup {None}, i \in Ids \cup {None} :
      Begin(w, [Idle EXCEPT !.pc = "config", !.op = "config", !.setting = [port |-> p, default_id |-> i],
                  !.list = <<[port       |-> IF p = None THEN config.port ELSE p,
                              default_id |-> IF i = None THEN config.default_id ELSE i]>>])

SaveConfig(w) ==
    /\ frame[w].pc = "config" /\ lock = None
    /\ config' = frame[w].list[1]
    /\ \/ /\ stored' = config'
          /\ named' = [k \in {"port", "default_id"} |->
                         IF frame[w].setting[k] = None THEN named[k] ELSE frame[w].setting[k]]
          /\ Ends(w) /\ UNCHANGED <<lock, faults, broken>>
       \/ Fails(w) /\ UNCHANGED <<stored, named>>
    /\ UNCHANGED <<embedded, disk, assets, left, made, sent, deleted, misread>>

\* The process ends and comes back; files stay as they are.
Crash ==
    /\ Fault
    /\ broken' = (broken \/ \E w \in Workers : frame[w].pc # "idle")
    /\ frame' = [w \in Workers |-> Idle]
    /\ lock' = None /\ dispatch' = None
    /\ config' = stored
    /\ UNCHANGED <<embedded, disk, assets, left, stored, made, ghosts, misread>>

Request(w) ==
    \/ set_clip(w) \/ bulk_delete_history(w) \/ get_clip(w) \/ set_config(w)
    \/ SaveAsset(w) \/ Load(w) \/ LoadFails(w)
    \/ delete_asset(w) \/ save_profile_state(w) \/ SaveConfig(w)

Next == (\E w \in Workers : Request(w)) \/ Crash
Spec == Init /\ [][Next]_vars

-----------------------------------------------------------------------------
(* Properties *)

\* The state has the shape that the code gives it.
TypeOK ==
    /\ embedded \in BOOLEAN
    /\ dispatch \in Workers \cup {None} /\ lock \in Workers \cup {None}
    /\ disk.there \in BOOLEAN /\ disk.list \in Seq(Clips) /\ Len(disk.list) <= MAX_HISTORY
    /\ assets \cup left \subseteq HasFile
    /\ config \in [port : Ports, default_id : Ids]
    /\ \A w \in Workers : frame[w].pc \in {"idle", "asset", "lock", "edit", "config"}
    /\ sent \in Seq(Clips) /\ deleted \subseteq Clips

(* A clip whose sending was answered is in the history until a request       *)
(* deletes it or MAX_HISTORY later ones push it out, and a deleted one never *)
(* comes back: in whatever order requests run, and wherever they fail or the *)
(* process ends (shareclip/app.py:388-397).  Only a state file that cannot be read at  *)
(* some time takes the history with it.                                      *)
AnswersKept ==
    ~misread =>
    /\ \A i \in DOMAIN sent :
         \/ sent[i] \in ClipsOf(disk.list) \cup deleted
         \/ Len(sent) - i >= MAX_HISTORY
    /\ ClipsOf(disk.list) \cap deleted = {}

(* As long as no request has ended half-way, the files beside the state file *)
(* are those of the clips it lists and of the requests under way: no clip    *)
(* without its file, no file without its clip (delete_asset comes before the *)
(* save, the saving of an upload before the load).  The one exception is a   *)
(* file whose unlink failed: the deletion is answered with ok all the same,  *)
(* and the file stays for good, listed by nobody.                            *)
AssetsExact ==
    ~misread /\ ~broken =>
    /\ \A c \in HasFile \ ClipsOf(Legacy) :
         c \in ClipsOf(disk.list) =>
           c \in assets \/ \E w \in Workers : frame[w].pc = "edit" /\ c \in frame[w].gone
    /\ \A c \in assets :
         c \in ClipsOf(disk.list) \/ \E w \in Workers : frame[w].clip = c

(* Inside AfterClaw a setting keeps the value that the last request to name  *)
(* it gave, although set_config reads the other setting before it takes LOCK *)
(* (shareclip/app.py:308-315): the dispatch lock covers both.                *)
SettingsKept == embedded /\ ~broken => config = named
=============================================================================
