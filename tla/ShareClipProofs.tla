--------------------------- MODULE ShareClipProofs ---------------------------
(***************************************************************************)
(* What ShareClip.tla promises of the history, the files and the settings, *)
(* for any number of threads, clips, requests, crashes and faults, and any *)
(* MAX_HISTORY.                                                            *)
(***************************************************************************)
EXTENDS ShareClip, FilterProofs

\* What the variables hold.
Points == {"idle", "asset", "lock", "edit", "config"}
Setting == [port : Ports, default_id : Ids]
Frame == [pc : Points, op : {"none", "set", "delete", "get", "config"},
          clip : Clips \cup {None}, gone : SUBSET Clips, list : Seq(Clips \cup Setting),
          todo : SUBSET Clips, setting : [port : Ports \cup {None}, default_id : Ids \cup {None}]]

Old == ClipsOf(Legacy)
Listed == ClipsOf(disk.list)
History == Seq(Clips)
Short(list) == list \in History /\ Len(list) <= MAX_HISTORY

TypeInv ==
    /\ embedded \in BOOLEAN /\ disk \in [there : BOOLEAN, list : History] /\ Short(disk.list)
    /\ assets \subseteq Clips
    /\ config \in Setting /\ stored \in Setting
    /\ named \in Setting
    /\ frame \in [Workers -> Frame]
    /\ sent \in Seq(Clips) /\ deleted \subseteq Clips

\* The locks, and what a request is about at each point.
LockInv ==
    \A w \in Workers :
      /\ frame[w].pc = "edit" => lock = w
      /\ embedded /\ frame[w].pc # "idle" => dispatch = w
PointOK(f, files) ==
    /\ f.op # "set" => f.clip = None
    /\ f.op = "set" => f.clip # None
    /\ f.pc = "idle" => f.op = "none"
    /\ f.pc = "asset" => f.op = "set" /\ f.clip \in HasFile
    /\ f.pc = "lock" => f.op \in {"set", "delete", "get"}
    /\ f.pc = "edit" => f.op \in {"set", "delete"}
    /\ f.pc = "config" => f.op = "config" /\ Len(f.list) = 1 /\ f.list[1] \in Setting
    /\ f.pc \in {"lock", "edit"} /\ f.clip \in HasFile => f.clip \in files
PointInv == \A w \in Workers : PointOK(frame[w], assets)

\* A clip that is being sent is nowhere else.
Fresh(w, c) ==
    /\ c \notin Old \cup Listed \cup ClipsOf(sent)
    /\ \A v \in Workers \ {w} : frame[v].clip # c
FreshInv ==
    /\ Listed \subseteq Old \cup ClipsOf(sent)
    /\ deleted \subseteq Old \cup ClipsOf(sent)
    /\ \A w \in Workers : frame[w].clip # None => Fresh(w, frame[w].clip)

\* What an edit makes of the list on disk: a clip in front, at the expense of
\* the last one when the list is full; or fewer clips, none further back.
Pushed(new, c, list) ==
    /\ Len(new) >= 1 /\ new[1] = c
    /\ \A j \in 2..Len(new) : j - 1 \in 1..Len(list) /\ new[j] = list[j - 1]
    /\ \A k \in 1..Len(list) : k < MAX_HISTORY => k + 1 \in 1..Len(new) /\ new[k + 1] = list[k]
Thinned(new, list) ==
    \A j \in 1..Len(new) : \E k \in j..Len(list) : new[j] = list[k]
Edits(f, list, files) ==
    /\ Short(f.list)
    /\ f.op = "set" => Pushed(f.list, f.clip, list)
    /\ f.op = "delete" => Thinned(f.list, list)
    /\ f.gone = ClipsOf(list) \ ClipsOf(f.list)
    /\ f.todo \subseteq f.gone
    /\ files \cap (f.gone \ f.todo) = {}
EditInv == \A w \in Workers : frame[w].pc = "edit" => Edits(frame[w], disk.list, assets)

\* A clip that was sent has at least as many later ones as stand before it.
KeptInv ==
    /\ ~disk.there => sent = << >> /\ deleted = {} /\ disk.list = << >>
    /\ ~misread =>
         /\ \A j \in DOMAIN disk.list, i \in DOMAIN sent :
              disk.list[j] = sent[i] => Len(sent) - i >= j - 1
         /\ AnswersKept

\* A request for settings holds what it will name.
SettingOK(f) ==
    f.list[1] = [port |-> IF f.setting.port = None THEN config.port ELSE f.setting.port,
                 default_id |-> IF f.setting.default_id = None THEN config.default_id
                                                               ELSE f.setting.default_id]
SettingInv ==
    ~broken =>
      /\ stored = config
      /\ embedded =>
           /\ config = named
           /\ \A w \in Workers : frame[w].pc = "config" => SettingOK(frame[w])

\* The invariant.  AnswersKept and SettingsKept are not inductive by themselves: a
\* request that has loaded the history must still hold all of it when it saves
\* (EditInv), which needs the lock; a clip in front must be a new one (FreshInv);
\* and a clip is pushed out only by as many later ones as stand before it.
Inv == /\ TypeInv /\ LockInv /\ PointInv /\ FreshInv /\ EditInv /\ KeptInv
       /\ SettingInv /\ AssetsExact

-----------------------------------------------------------------------------
(* Lists of clips.                                                           *)

\* Cutting a history leaves its first MAX_HISTORY clips.
LEMMA NewestFacts ==
  ASSUME NEW list \in History
  PROVE  /\ Short(Newest(list))
         /\ Len(Newest(list)) = IF Len(list) < MAX_HISTORY THEN Len(list) ELSE MAX_HISTORY
         /\ \A j \in 1..Len(Newest(list)) : j \in 1..Len(list) /\ Newest(list)[j] = list[j]
BY ShareClipAssumption DEF Newest, Short, History

\* One that is short enough stays as it is.
LEMMA NewestShort ==
  ASSUME NEW list, Short(list)
  PROVE  Newest(list) = list
<1>1. list \in History /\ Newest(list) \in History
  BY NewestFacts DEF Short
<1>2. Len(Newest(list)) = Len(list)
  <2>1. Len(Newest(list)) = IF Len(list) < MAX_HISTORY THEN Len(list) ELSE MAX_HISTORY
    BY <1>1, NewestFacts
  <2>2. Len(list) \in Nat /\ MAX_HISTORY \in Nat /\ Len(list) <= MAX_HISTORY
    BY <1>1, ShareClipAssumption DEF Short, History
  <2> QED
    BY <2>1, <2>2
<1>3. \A j \in 1..Len(list) : Newest(list)[j] = list[j]
  BY <1>1, <1>2, NewestFacts
<1> QED
  BY <1>1, <1>2, <1>3 DEF History

\* set_clip puts its clip in front of the others.
LEMMA PushedFront ==
  ASSUME NEW list, Short(list), NEW c \in Clips
  PROVE  Short(Newest(<<c>> \o list)) /\ Pushed(Newest(<<c>> \o list), c, list)
<1> DEFINE long == <<c>> \o list
           new == Newest(long)
<1>1. list \in History /\ Len(list) \in Nat /\ MAX_HISTORY \in Nat \ {0}
  BY ShareClipAssumption DEF Short, History
<1>2. /\ long \in History /\ Len(long) = Len(list) + 1 /\ long[1] = c
      /\ \A j \in 2..Len(long) : long[j] = list[j - 1]
  BY <1>1 DEF History
<1> HIDE DEF long
<1>3. /\ Short(new)
      /\ Len(new) = IF Len(long) < MAX_HISTORY THEN Len(long) ELSE MAX_HISTORY
      /\ \A j \in 1..Len(new) : j \in 1..Len(long) /\ new[j] = long[j]
  BY <1>2, NewestFacts
<1> HIDE DEF new
<1>4. Len(new) >= 1 /\ new[1] = c
  BY <1>1, <1>2, <1>3
<1>5. \A j \in 2..Len(new) : j - 1 \in 1..Len(list) /\ new[j] = list[j - 1]
  BY <1>1, <1>2, <1>3
<1>6. \A k \in 1..Len(list) : k < MAX_HISTORY => k + 1 \in 1..Len(new) /\ new[k + 1] = list[k]
  <2> SUFFICES ASSUME NEW k \in 1..Len(list), k < MAX_HISTORY
               PROVE  k + 1 \in 1..Len(new) /\ new[k + 1] = list[k]
    OBVIOUS
  <2>1. k + 1 \in 1..Len(new)
    BY <1>1, <1>2, <1>3
  <2>2. new[k + 1] = long[k + 1] /\ k + 1 \in 2..Len(long) /\ (k + 1) - 1 = k
    BY <1>1, <1>2, <1>3, <2>1
  <2> QED
    BY <1>2, <2>1, <2>2
<1> QED
  BY <1>3, <1>4, <1>5, <1>6 DEF Pushed, long, new

\* bulk_delete_history moves no clip further back.
LEMMA FilterThins ==
  ASSUME NEW list, Short(list), NEW S
  PROVE  Short(Filter(list, S)) /\ Thinned(Filter(list, S), list)
<1>1. Kept(Filter(list, S), list, S, Clips, Len(list))
  BY FilterKeeps DEF Short, History
<1> DEFINE new == Filter(list, S)
<1> HIDE DEF new
<1>2. Kept(new, list, S, Clips, Len(list))
  BY <1>1 DEF new
<1>3. new \in Seq(Clips) /\ Len(new) <= Len(list) /\ Len(new) \in Nat /\ Len(list) \in Nat
  BY <1>2 DEF Kept, Short, History
<1>4. Short(new)
  BY <1>3, ShareClipAssumption DEF Short, History
<1>5. Thinned(new, list)
  BY <1>2 DEF Kept, Thinned
<1> QED
  BY <1>4, <1>5 DEF new

-----------------------------------------------------------------------------
(* A request moves on.                                                       *)

\* A worker without a request.
LEMMA IdleFrame == Idle \in Frame /\ Idle.pc = "idle" /\ Idle.op = "none" /\ Idle.clip = None
BY DEF Idle, Frame, Points

\* A worker's record changes, no other does.
LEMMA GoesTo ==
  ASSUME TypeInv, NEW w \in Workers, NEW g \in Frame, Goes(w, g)
  PROVE  /\ frame' \in [Workers -> Frame] /\ frame'[w] = g
         /\ \A v \in Workers \ {w} : frame'[v] = frame[v]
BY DEF TypeInv, Goes

\* The end of a request takes no lock from another.
LEMMA EndsAt ==
  ASSUME TypeInv, NEW w \in Workers, Ends(w)
  PROVE  /\ Goes(w, Idle)
         /\ \A v \in Workers \ {w} : dispatch = v => dispatch' = v
BY ShareClipAssumption DEF Ends

\* Nor does the release of LOCK.
LEMMA FreesIt ==
  ASSUME NEW w \in Workers, Frees(w)
  PROVE  \A v \in Workers \ {w} : lock = v => lock' = v
BY DEF Frees

\* A step that touches neither the history nor what was said of it.
LEMMA QuietStep ==
  ASSUME Inv, NEW w \in Workers, NEW g \in Frame, Goes(w, g),
         UNCHANGED <<embedded, disk, sent, deleted, misread>>,
         config' \in Setting, stored' \in Setting, named' \in Setting, assets' \subseteq Clips,
         g.pc = "edit" => lock' = w,
         embedded /\ g.pc # "idle" => dispatch' = w,
         \A v \in Workers \ {w} : (lock = v => lock' = v) /\ (dispatch = v => dispatch' = v),
         PointOK(g, assets'),
         g.clip # None => Fresh(w, g.clip),
         g.pc = "edit" => Edits(g, disk.list, assets'),
         \A v \in Workers \ {w} :
           /\ frame[v].clip \in assets => frame[v].clip \in assets'
           /\ frame[v].pc = "edit" => assets' \cap (frame[v].gone \ frame[v].todo) = {},
         SettingInv', AssetsExact'
  PROVE  Inv'
<1>1. /\ frame' \in [Workers -> Frame] /\ frame'[w] = g
      /\ \A v \in Workers \ {w} : frame'[v] = frame[v]
  BY GoesTo DEF Inv
<1>2. TypeInv'
  BY <1>1 DEF Inv, TypeInv
<1>3. LockInv'
  BY <1>1 DEF Inv, LockInv
<1>4. PointInv'
  BY <1>1 DEF Inv, PointInv, PointOK
<1>5. FreshInv'
  <2>1. \A v \in Workers : frame'[v].clip # None =>
           /\ frame'[v].clip \notin Old \cup Listed \cup ClipsOf(sent)
           /\ \A u \in Workers \ {v} : frame'[u].clip # frame'[v].clip
    BY <1>1 DEF Inv, FreshInv, Fresh
  <2> QED
    BY <2>1 DEF Inv, FreshInv, Fresh, Listed, Old, ClipsOf
<1>6. EditInv'
  BY <1>1 DEF Inv, EditInv, Edits
<1>7. KeptInv'
  BY DEF Inv, KeptInv, AnswersKept, ClipsOf
<1> QED
  BY <1>2, <1>3, <1>4, <1>5, <1>6, <1>7 DEF Inv

\* A step that leaves the settings alone.
LEMMA SettingQuiet ==
  ASSUME Inv, NEW w \in Workers, NEW g \in Frame, Goes(w, g),
         UNCHANGED <<embedded, config, stored, named>>, broken => broken',
         g.pc = "config" => SettingOK(g)
  PROVE  SettingInv'
<1>1. /\ frame'[w] = g /\ \A v \in Workers \ {w} : frame'[v] = frame[v]
  BY GoesTo DEF Inv
<1> QED
  BY <1>1 DEF Inv, SettingInv, SettingOK

\* A step that leaves the files and the history alone.
LEMMA AssetsQuiet ==
  ASSUME Inv, NEW w \in Workers, NEW g \in Frame, Goes(w, g),
         UNCHANGED <<disk, assets>>, misread => misread', broken => broken',
         frame[w].pc = "edit" => g.pc = "edit" /\ g.gone = frame[w].gone,
         frame[w].clip \in assets => g.clip = frame[w].clip
  PROVE  AssetsExact'
<1>1. /\ frame'[w] = g /\ \A v \in Workers \ {w} : frame'[v] = frame[v]
  BY GoesTo DEF Inv
<1> QED
  BY <1>1 DEF Inv, AssetsExact, ClipsOf

\* After a request that ended half-way nothing is said of files and settings.
LEMMA AssetsBroken == broken' => AssetsExact'
BY DEF AssetsExact
LEMMA SettingBroken == broken' => SettingInv'
BY DEF SettingInv

\* An exception, with a file that may have been written.
LEMMA FailsStep ==
  ASSUME Inv, NEW w \in Workers, Fails(w),
         UNCHANGED <<embedded, disk, sent, deleted, misread>>,
         config' \in Setting, stored' \in Setting, named' \in Setting, assets' \subseteq Clips,
         assets' \in {assets, assets \cup {frame[w].clip}}
  PROVE  Inv'
<1>1. /\ Goes(w, Idle) /\ broken'
      /\ \A v \in Workers \ {w} : (lock = v => lock' = v) /\ (dispatch = v => dispatch' = v)
  BY EndsAt, FreesIt DEF Inv, Fails
<1>2. PointOK(Idle, assets')
  BY IdleFrame, ShareClipAssumption DEF PointOK
<1>3. ASSUME NEW v \in Workers \ {w}, frame[v].pc = "edit"
      PROVE  assets' \cap (frame[v].gone \ frame[v].todo) = {}
  <2>1. Edits(frame[v], disk.list, assets)
    BY <1>3 DEF Inv, EditInv
  <2>2. frame[w].clip \notin frame[v].gone
    BY <2>1, ShareClipAssumption
       DEF Inv, TypeInv, History, FreshInv, Fresh, Listed, ClipsOf, Edits
  <2> QED
    BY <2>1, <2>2 DEF Edits
<1> QED
  BY <1>1, <1>2, <1>3, IdleFrame, QuietStep, AssetsBroken, SettingBroken

\* A request begins.
LEMMA BeginStep ==
  ASSUME Inv, NEW w \in Workers, NEW g \in Frame, Begin(w, g),
         g.pc \in {"asset", "lock", "config"}, PointOK(g, assets),
         g.clip # None => Fresh(w, g.clip), g.pc = "config" => SettingOK(g)
  PROVE  Inv'
<1>1. /\ Goes(w, g) /\ frame[w].pc = "idle"
      /\ UNCHANGED <<embedded, lock, disk, assets, config, stored, ghosts, misread, broken>>
      /\ embedded => dispatch = None
      /\ dispatch' = IF embedded THEN w ELSE dispatch
  BY DEF Begin
<1>2. UNCHANGED <<sent, deleted, named>>
  BY <1>1 DEF ghosts
<1>3. frame[w].clip = None /\ None \notin assets
  BY <1>1, ShareClipAssumption DEF Inv, PointInv, PointOK, TypeInv
<1>4. \A v \in Workers \ {w} : (lock = v => lock' = v) /\ (dispatch = v => dispatch' = v)
  BY <1>1, ShareClipAssumption
<1>5. SettingInv'
  BY <1>1, <1>2, SettingQuiet
<1>6. AssetsExact'
  BY <1>1, <1>3, AssetsQuiet
<1>7. config' \in Setting /\ stored' \in Setting /\ named' \in Setting /\ assets' \subseteq Clips
  BY <1>1, <1>2 DEF Inv, TypeInv
<1>8. \A v \in Workers \ {w} :
           /\ frame[v].clip \in assets => frame[v].clip \in assets'
           /\ frame[v].pc = "edit" => assets' \cap (frame[v].gone \ frame[v].todo) = {}
  BY <1>1 DEF Inv, EditInv, Edits
<1>9. g.pc # "edit" /\ (embedded /\ g.pc # "idle" => dispatch' = w) /\ PointOK(g, assets')
  BY <1>1
<1> QED
  BY <1>1, <1>2, <1>4, <1>5, <1>6, <1>7, <1>8, <1>9, QuietStep

\* One lemma for every action.
LEMMA SetClipStep ==
  ASSUME Inv, NEW w \in Workers, set_clip(w)
  PROVE  Inv'
<1>1. PICK c \in Clips \ (ClipsOf(Legacy) \cup {frame[v].clip : v \in Workers} \cup assets \cup left
                          \cup ClipsOf(disk.list) \cup ClipsOf(sent)) :
        Begin(w, [Idle EXCEPT !.pc = IF c \in HasFile THEN "asset" ELSE "lock",
                              !.op = "set", !.clip = c])
  BY DEF set_clip
<1> DEFINE g == [Idle EXCEPT !.pc = IF c \in HasFile THEN "asset" ELSE "lock",
                             !.op = "set", !.clip = c]
<1>2. /\ g \in Frame /\ g.op = "set" /\ g.clip = c
      /\ g.pc = IF c \in HasFile THEN "asset" ELSE "lock"
  BY IdleFrame DEF Frame, Points
<1>3. Begin(w, g)
  BY <1>1
<1> HIDE DEF g
<1>4. Fresh(w, c)
  BY <1>1 DEF Fresh, Old, Listed
<1>5. PointOK(g, assets)
  BY <1>2, ShareClipAssumption DEF PointOK
<1> QED
  BY <1>2, <1>3, <1>4, <1>5, BeginStep

LEMMA DeleteStep ==
  ASSUME Inv, NEW w \in Workers, bulk_delete_history(w)
  PROVE  Inv'
<1>1. PICK gone \in SUBSET ClipsOf(disk.list) :
        Begin(w, [Idle EXCEPT !.pc = "lock", !.op = "delete", !.gone = gone])
  BY DEF bulk_delete_history
<1>2. gone \in SUBSET Clips
  BY DEF ClipsOf, Inv, TypeInv, History
<1> DEFINE g == [Idle EXCEPT !.pc = "lock", !.op = "delete", !.gone = gone]
<1>3. g \in Frame /\ g.pc = "lock" /\ g.op = "delete" /\ g.clip = None
  BY <1>2, IdleFrame DEF Frame, Points
<1>4. Begin(w, g)
  BY <1>1
<1> HIDE DEF g
<1>5. PointOK(g, assets)
  BY <1>3, ShareClipAssumption DEF PointOK
<1> QED
  BY <1>3, <1>4, <1>5, BeginStep

LEMMA GetStep ==
  ASSUME Inv, NEW w \in Workers, get_clip(w)
  PROVE  Inv'
<1> DEFINE g == [Idle EXCEPT !.pc = "lock", !.op = "get"]
<1>1. g \in Frame /\ g.pc = "lock" /\ g.op = "get" /\ g.clip = None
  BY IdleFrame DEF Frame, Points
<1>2. Begin(w, g)
  BY DEF get_clip
<1> HIDE DEF g
<1>3. PointOK(g, assets)
  BY <1>1, ShareClipAssumption DEF PointOK
<1> QED
  BY <1>1, <1>2, <1>3, BeginStep

LEMMA SetConfigStep ==
  ASSUME Inv, NEW w \in Workers, set_config(w)
  PROVE  Inv'
<1>1. PICK p \in Ports \cup {None}, i \in Ids \cup {None} :
        Begin(w, [Idle EXCEPT !.pc = "config", !.op = "config",
                    !.setting = [port |-> p, default_id |-> i],
                    !.list = <<[port       |-> IF p = None THEN config.port ELSE p,
                                default_id |-> IF i = None THEN config.default_id ELSE i]>>])
  BY DEF set_config
<1> DEFINE s == [port |-> p, default_id |-> i]
           r == [port       |-> IF p = None THEN config.port ELSE p,
                 default_id |-> IF i = None THEN config.default_id ELSE i]
           g == [Idle EXCEPT !.pc = "config", !.op = "config", !.setting = s, !.list = <<r>>]
<1>2. s \in [port : Ports \cup {None}, default_id : Ids \cup {None}]
      /\ s.port = p /\ s.default_id = i
  OBVIOUS
<1>3. r \in Setting
  BY DEF Inv, TypeInv, Setting
<1>4. r = [port |-> IF s.port = None THEN config.port ELSE s.port,
           default_id |-> IF s.default_id = None THEN config.default_id ELSE s.default_id]
  OBVIOUS
<1> HIDE DEF s, r
<1>5. <<r>> \in Seq(Clips \cup Setting) /\ Len(<<r>>) = 1 /\ <<r>>[1] = r
  BY <1>3
<1>6. g \in Frame /\ g.pc = "config" /\ g.op = "config" /\ g.clip = None /\ g.setting = s
      /\ g.list = <<r>>
  BY <1>2, <1>5, IdleFrame DEF Frame, Points
<1>7. Begin(w, g)
  BY <1>1 DEF s, r
<1> HIDE DEF g
<1>8. PointOK(g, assets)
  BY <1>3, <1>5, <1>6, ShareClipAssumption DEF PointOK
<1>9. SettingOK(g)
  BY <1>4, <1>5, <1>6 DEF SettingOK
<1> QED
  BY <1>6, <1>7, <1>8, <1>9, BeginStep

\* What a worker's record says of itself.
LEMMA FrameFacts ==
  ASSUME Inv, NEW w \in Workers
  PROVE  /\ frame[w] \in Frame /\ PointOK(frame[w], assets)
         /\ frame[w].clip # None => Fresh(w, frame[w].clip)
         /\ frame[w].pc = "edit" => lock = w /\ Edits(frame[w], disk.list, assets)
         /\ embedded /\ frame[w].pc # "idle" => dispatch = w
BY DEF Inv, TypeInv, PointInv, FreshInv, LockInv, EditInv

LEMMA SaveAssetStep ==
  ASSUME Inv, NEW w \in Workers, SaveAsset(w)
  PROVE  Inv'
<1>1. /\ frame[w].pc = "asset" /\ frame[w] \in Frame /\ PointOK(frame[w], assets)
      /\ UNCHANGED <<embedded, disk, config, stored, made, misread>>
      /\ UNCHANGED <<sent, deleted, named>>
  BY FrameFacts DEF SaveAsset, ghosts
<1>2. frame[w].op = "set" /\ frame[w].clip \in Clips /\ Fresh(w, frame[w].clip)
  BY <1>1, FrameFacts DEF PointOK, Frame
<1>3. /\ config' \in Setting /\ stored' \in Setting /\ named' \in Setting
      /\ assets \subseteq Clips
  BY <1>1 DEF Inv, TypeInv
<1>4. CASE /\ assets' \in {assets, assets \cup {frame[w].clip}}
           /\ Fails(w)
  BY <1>1, <1>2, <1>3, <1>4, FailsStep
<1>5. CASE /\ assets' = assets \cup {frame[w].clip}
           /\ Goes(w, [frame[w] EXCEPT !.pc = "lock"])
           /\ UNCHANGED <<dispatch, lock, faults, broken>>
  <2> DEFINE g == [frame[w] EXCEPT !.pc = "lock"]
  <2>1. /\ g \in Frame /\ g.pc = "lock" /\ g.op = "set" /\ g.clip = frame[w].clip
    BY <1>1, <1>2 DEF Frame, Points
  <2>2. Goes(w, g)
    BY <1>5
  <2> HIDE DEF g
  <2>3. frame'[w] = g /\ \A v \in Workers \ {w} : frame'[v] = frame[v]
    BY <2>1, <2>2, GoesTo DEF Inv
  <2>4. PointOK(g, assets')
    BY <1>2, <1>5, <2>1, ShareClipAssumption DEF PointOK
  <2>5. \A v \in Workers \ {w} :
          /\ frame[v].clip \in assets => frame[v].clip \in assets'
          /\ frame[v].pc = "edit" => assets' \cap (frame[v].gone \ frame[v].todo) = {}
    <3> SUFFICES ASSUME NEW v \in Workers \ {w}, frame[v].pc = "edit"
                 PROVE  assets' \cap (frame[v].gone \ frame[v].todo) = {}
      BY <1>5
    <3>1. Edits(frame[v], disk.list, assets)
      BY FrameFacts
    <3>2. frame[w].clip \notin frame[v].gone
      BY <1>2, <3>1 DEF Fresh, Listed, Edits
    <3> QED
      BY <1>5, <3>1, <3>2 DEF Edits
  <2>6. AssetsExact'
    BY <1>1, <1>5, <2>1, <2>3 DEF Inv, AssetsExact, ClipsOf
  <2>7. SettingInv'
    BY <1>1, <1>5, <2>1, <2>2, SettingQuiet
  <2>8. embedded => dispatch' = w
    BY <1>1, <1>5, FrameFacts
  <2>9. Fresh(w, g.clip)
    BY <1>2, <2>1
  <2> QED
    BY <1>1, <1>2, <1>3, <1>5, <2>1, <2>2, <2>4, <2>5, <2>6, <2>7, <2>8, <2>9, QuietStep
<1> QED
  BY <1>4, <1>5 DEF SaveAsset

LEMMA LoadFailsStep ==
  ASSUME Inv, NEW w \in Workers, LoadFails(w)
  PROVE  Inv'
<1>1. Fails(w) /\ UNCHANGED <<embedded, disk, assets, config, stored, sent, deleted, named, misread>>
  BY DEF LoadFails, ghosts
<1>2. /\ config' \in Setting /\ stored' \in Setting /\ named' \in Setting
      /\ assets' \subseteq Clips
  BY <1>1 DEF Inv, TypeInv
<1> QED
  BY <1>1, <1>2, FailsStep

LEMMA DeleteAssetStep ==
  ASSUME Inv, NEW w \in Workers, delete_asset(w)
  PROVE  Inv'
<1>1. PICK c \in frame[w].todo :
        /\ assets' = assets \ {c}
        /\ Goes(w, [frame[w] EXCEPT !.todo = @ \ {c}])
  BY DEF delete_asset
<1>2. /\ frame[w].pc = "edit"
      /\ UNCHANGED <<embedded, dispatch, lock, disk, config, stored, misread, broken>>
      /\ UNCHANGED <<sent, deleted, named>>
  BY DEF delete_asset, ghosts
<1>3. /\ frame[w] \in Frame /\ PointOK(frame[w], assets) /\ lock = w
      /\ Edits(frame[w], disk.list, assets)
      /\ embedded => dispatch = w
      /\ frame[w].clip # None => Fresh(w, frame[w].clip)
  BY <1>2, FrameFacts
<1>4. c \in frame[w].gone /\ c \in Listed
  BY <1>3 DEF Edits, Listed
<1> DEFINE g == [frame[w] EXCEPT !.todo = @ \ {c}]
<1>5. /\ g \in Frame /\ g.pc = "edit" /\ g.op = frame[w].op /\ g.clip = frame[w].clip
      /\ g.gone = frame[w].gone /\ g.list = frame[w].list /\ g.todo = frame[w].todo \ {c}
  BY <1>2, <1>3 DEF Frame
<1>6. Goes(w, g)
  BY <1>1
<1> HIDE DEF g
<1>7. frame'[w] = g /\ \A v \in Workers \ {w} : frame'[v] = frame[v]
  BY <1>5, <1>6, GoesTo DEF Inv
<1>8. \A v \in Workers \ {w} :
        /\ frame[v].clip \in assets => frame[v].clip \in assets'
        /\ frame[v].pc = "edit" => assets' \cap (frame[v].gone \ frame[v].todo) = {}
  <2> SUFFICES ASSUME NEW v \in Workers \ {w}
               PROVE  /\ frame[v].clip \in assets => frame[v].clip \in assets'
                      /\ frame[v].pc # "edit"
    OBVIOUS
  <2>1. frame[v].pc # "edit"
    BY <1>3, FrameFacts
  <2>2. frame[v].clip # c
    BY <1>4, FrameFacts, ShareClipAssumption DEF Fresh, Listed, ClipsOf, Inv, TypeInv, History
  <2> QED
    BY <1>1, <2>1, <2>2
<1>9. frame[w].clip # c
  BY <1>3, <1>4, ShareClipAssumption DEF Fresh, Listed, ClipsOf, Inv, TypeInv, History
<1>10. PointOK(g, assets')
  BY <1>1, <1>2, <1>3, <1>5, <1>9 DEF PointOK
<1>11. Edits(g, disk.list, assets')
  BY <1>1, <1>3, <1>5 DEF Edits
<1>12. AssetsExact'
  <2>1. ASSUME ~misread, ~broken, NEW d \in HasFile \ Old, d \in Listed
        PROVE  d \in assets' \/ \E v \in Workers : frame'[v].pc = "edit" /\ d \in frame'[v].gone
    <3>1. d \in assets \/ \E v \in Workers : frame[v].pc = "edit" /\ d \in frame[v].gone
      BY <2>1 DEF Inv, AssetsExact, Old, Listed
    <3>2. CASE d = c
      BY <1>4, <1>5, <1>7, <3>2
    <3>3. CASE d # c
      BY <1>1, <1>2, <1>5, <1>7, <3>1, <3>3
    <3> QED
      BY <3>2, <3>3
  <2>2. ASSUME ~misread, ~broken, NEW d \in assets'
        PROVE  d \in Listed \/ \E v \in Workers : frame'[v].clip = d
    <3>1. d \in Listed \/ \E v \in Workers : frame[v].clip = d
      BY <1>1, <2>2 DEF Inv, AssetsExact, Listed
    <3> QED
      BY <1>5, <1>7, <3>1
  <2> QED
    BY <1>2, <2>1, <2>2 DEF AssetsExact, Old, Listed, ClipsOf
<1>13. SettingInv'
  BY <1>2, <1>5, <1>6, SettingQuiet
<1>14. /\ config' \in Setting /\ stored' \in Setting /\ named' \in Setting
       /\ assets' \subseteq Clips
  BY <1>1, <1>2 DEF Inv, TypeInv
<1> QED
  BY <1>2, <1>3, <1>5, <1>6, <1>8, <1>10, <1>11, <1>12, <1>13, <1>14, QuietStep

LEMMA SaveConfigStep ==
  ASSUME Inv, NEW w \in Workers, SaveConfig(w)
  PROVE  Inv'
<1>1. /\ frame[w].pc = "config" /\ lock = None /\ config' = frame[w].list[1]
      /\ UNCHANGED <<embedded, disk, assets, made, sent, deleted, misread>>
  BY DEF SaveConfig
<1>2. /\ frame[w] \in Frame /\ PointOK(frame[w], assets)
      /\ embedded => dispatch = w
      /\ frame[w].op = "config" /\ frame[w].clip = None
  BY <1>1, FrameFacts DEF PointOK
<1>3. config' \in Setting /\ assets' \subseteq Clips
  BY <1>1, <1>2 DEF PointOK, Inv, TypeInv
<1>4. CASE Fails(w) /\ UNCHANGED <<stored, named>>
  <2>1. stored' \in Setting /\ named' \in Setting
    BY <1>4 DEF Inv, TypeInv
  <2> QED
    BY <1>1, <1>3, <1>4, <2>1, FailsStep
<1>5. CASE /\ stored' = config'
           /\ named' = [k \in {"port", "default_id"} |->
                          IF frame[w].setting[k] = None THEN named[k] ELSE frame[w].setting[k]]
           /\ Ends(w) /\ UNCHANGED <<lock, faults, broken>>
  <2>1. named \in Setting /\ frame[w].setting \in [port : Ports \cup {None}, default_id : Ids \cup {None}]
    BY <1>2 DEF Inv, TypeInv, Frame
  <2>2. /\ named' \in Setting
        /\ named'.port = IF frame[w].setting.port = None THEN named.port ELSE frame[w].setting.port
        /\ named'.default_id = IF frame[w].setting.default_id = None THEN named.default_id
                                                       ELSE frame[w].setting.default_id
    BY <1>5, <2>1 DEF Setting
  <2>3. /\ Goes(w, Idle) /\ \A v \in Workers \ {w} : dispatch = v => dispatch' = v
    BY <1>5, EndsAt DEF Inv
  <2>4. frame'[w] = Idle /\ \A v \in Workers \ {w} : frame'[v] = frame[v]
    BY <2>3, IdleFrame, GoesTo DEF Inv
  <2>5. SettingInv'
    <3> SUFFICES ASSUME ~broken, embedded
                 PROVE  /\ config' = named'
                        /\ \A v \in Workers : frame'[v].pc # "config"
      BY <1>1, <1>5 DEF SettingInv
    <3>1. config = named /\ SettingOK(frame[w])
      BY <1>1 DEF Inv, SettingInv
    <3>2. /\ config'.port = named'.port /\ config'.default_id = named'.default_id
      BY <1>1, <2>2, <3>1 DEF SettingOK
    <3>3. config' = named'
      BY <1>3, <2>2, <3>2 DEF Setting
    <3>4. ASSUME NEW v \in Workers PROVE frame'[v].pc # "config"
      <4>1. CASE v = w
        BY <2>4, <4>1, IdleFrame
      <4>2. CASE v # w
        BY <1>2, <2>4, <4>2, FrameFacts
      <4> QED
        BY <4>1, <4>2
    <3> QED
      BY <3>3, <3>4
  <2>6. AssetsExact'
    <3>1. None \notin assets
      BY ShareClipAssumption DEF Inv, TypeInv
    <3> QED
      BY <1>1, <1>2, <1>5, <2>3, <3>1, IdleFrame, AssetsQuiet
  <2>7. PointOK(Idle, assets')
    BY IdleFrame, ShareClipAssumption DEF PointOK
  <2>8. \A v \in Workers \ {w} :
           /\ frame[v].clip \in assets => frame[v].clip \in assets'
           /\ frame[v].pc = "edit" => assets' \cap (frame[v].gone \ frame[v].todo) = {}
    BY <1>1, FrameFacts DEF Edits
  <2> QED
    BY <1>1, <1>3, <1>5, <2>2, <2>3, <2>5, <2>6, <2>7, <2>8, IdleFrame, QuietStep
<1> QED
  BY <1>4, <1>5 DEF SaveConfig

\* What LOCK's holder finds: the history, or else the older installation's.
LEMMA Loaded ==
  ASSUME Inv, NEW readable \in BOOLEAN
  PROVE  /\ load_profile_state(readable) \in {disk.list, Legacy}
         /\ Short(load_profile_state(readable))
         /\ load_profile_state(readable) # disk.list =>
              ~readable \/ (sent = << >> /\ deleted = {} /\ disk.list = << >>)
<1>1. Short(disk.list) /\ Short(Legacy)
  BY ShareClipAssumption DEF Inv, TypeInv, Short, History
<1>2. Newest(disk.list) = disk.list /\ Newest(Legacy) = Legacy
  BY <1>1, NewestShort
<1>3. load_profile_state(readable) = IF disk.there /\ readable THEN disk.list ELSE Legacy
  BY <1>2 DEF load_profile_state
<1> QED
  BY <1>1, <1>3 DEF Inv, KeptInv

\* The parts of the invariant that do not look at the worker that loads.
LEMMA LoadKeeps ==
  ASSUME Inv, NEW readable \in BOOLEAN, NEW list, list = load_profile_state(readable),
         disk' = [there |-> TRUE, list |-> list],
         IF readable THEN misread' = misread ELSE misread' = TRUE,
         UNCHANGED <<sent, deleted>>
  PROVE  /\ KeptInv'
         /\ Listed' = ClipsOf(list) /\ Listed' \subseteq Old \cup Listed
         /\ Short(list)
<1>1. /\ list \in {disk.list, Legacy} /\ Short(list)
      /\ list # disk.list =>
              ~readable \/ (sent = << >> /\ deleted = {} /\ disk.list = << >>)
  BY Loaded
<1>2. disk'.list = list /\ disk'.there
  OBVIOUS
<1>3. Listed' = ClipsOf(list) /\ Listed' \subseteq Old \cup Listed
  BY <1>1, <1>2 DEF Listed, Old, ClipsOf
<1>4. KeptInv'
  <2>1. CASE ~readable
    BY <1>2, <2>1 DEF KeptInv
  <2>2. CASE readable /\ list = disk.list
    <3>1. disk'.list = disk.list /\ sent' = sent /\ deleted' = deleted /\ misread' = misread
      BY <1>2, <2>2
    <3>2. /\ ~misread => \A j \in DOMAIN disk.list, i \in DOMAIN sent :
                            disk.list[j] = sent[i] => Len(sent) - i >= j - 1
          /\ AnswersKept
      BY DEF Inv, KeptInv, AnswersKept
    <3>3. AnswersKept'
      BY <3>1, <3>2 DEF AnswersKept, ClipsOf
    <3> QED
      BY ONLY <1>2, <3>1, <3>2, <3>3 DEF KeptInv
  <2>3. CASE readable /\ list # disk.list
    <3>1. sent' = << >> /\ deleted' = {}
      BY <1>1, <2>3
    <3>2. DOMAIN sent' = {}
      BY <3>1
    <3>3. AnswersKept'
      BY <3>1, <3>2 DEF AnswersKept
    <3> QED
      BY <1>2, <3>2, <3>3 DEF KeptInv
  <2> QED
    BY <2>1, <2>2, <2>3
<1> QED
  BY <1>1, <1>3, <1>4

LEMMA LoadStep ==
  ASSUME Inv, NEW w \in Workers, Load(w)
  PROVE  Inv'
<1>1. /\ frame[w].pc = "lock" /\ lock = None
      /\ UNCHANGED <<embedded, assets, config, stored, broken>>
      /\ UNCHANGED <<sent, deleted, named>>
  BY DEF Load, ghosts
<1> DEFINE new(list) == Edited(frame[w], list)
           old(list) == ClipsOf(list) \ ClipsOf(new(list))
           next(list) == [frame[w] EXCEPT !.pc = "edit", !.list = new(list), !.todo = old(list),
                                          !.gone = old(list)]
<1>2. PICK readable \in BOOLEAN :
        /\ IF readable THEN misread' = misread ELSE misread' = TRUE
        /\ disk' = [there |-> TRUE, list |-> load_profile_state(readable)]
        /\ IF frame[w].op = "get"
           THEN Ends(w) /\ UNCHANGED lock
           ELSE /\ lock' = w
                /\ Goes(w, next(load_profile_state(readable)))
                /\ UNCHANGED dispatch
  BY DEF Load
<1> DEFINE list == load_profile_state(readable)
<1>3. /\ KeptInv' /\ Listed' = ClipsOf(list) /\ Listed' \subseteq Old \cup Listed /\ Short(list)
  BY <1>1, <1>2, LoadKeeps
<1>4. disk'.list = list /\ disk' \in [there : BOOLEAN, list : History]
  BY <1>2, <1>3 DEF Short
<1>5. list \in {disk.list, Legacy}
      /\ (list # disk.list => misread' \/ disk.list = << >>)
  BY <1>2, Loaded
<1> HIDE DEF list
<1>6. /\ frame[w] \in Frame /\ PointOK(frame[w], assets)
      /\ embedded => dispatch = w
      /\ frame[w].clip # None => Fresh(w, frame[w].clip)
      /\ frame[w].op \in {"set", "delete", "get"}
  BY <1>1, FrameFacts DEF PointOK
<1>7. PICK g \in Frame :
        /\ Goes(w, g) /\ PointOK(g, assets)
        /\ g.pc = "edit" => lock' = w /\ Edits(g, list, assets)
        /\ g.pc # "config"
        /\ embedded /\ g.pc # "idle" => dispatch' = w
        /\ g.clip = frame[w].clip
        /\ \A v \in Workers \ {w} : dispatch = v => dispatch' = v
  <2>1. CASE frame[w].op = "get"
    <3>1. /\ Goes(w, Idle) /\ \A v \in Workers \ {w} : dispatch = v => dispatch' = v
      BY <1>2, <2>1, EndsAt DEF Inv
    <3>2. PointOK(Idle, assets) /\ Idle.clip = frame[w].clip
      BY <1>6, <2>1, IdleFrame, ShareClipAssumption DEF PointOK
    <3> QED
      BY <3>1, <3>2, IdleFrame
  <2>2. CASE frame[w].op # "get"
    <3> DEFINE g == next(list)
    <3>1. /\ Short(new(list))
          /\ frame[w].op = "set" => Pushed(new(list), frame[w].clip, list)
          /\ frame[w].op = "delete" => Thinned(new(list), list)
      <4>1. CASE frame[w].op = "set"
        <5>1. frame[w].clip \in Clips
          BY <1>6, <4>1 DEF Frame, PointOK
        <5>2. new(list) = Newest(<<frame[w].clip>> \o list)
          BY <4>1 DEF Edited
        <5> QED
          BY <1>3, <4>1, <5>1, <5>2, PushedFront
      <4>2. CASE frame[w].op = "delete"
        <5>1. new(list) = Filter(list, Clips \ frame[w].gone)
          BY <4>2 DEF Edited
        <5> QED
          BY <1>3, <4>2, <5>1, FilterThins
      <4> QED
        BY <1>6, <2>2, <4>1, <4>2
    <3>2. new(list) \in Seq(Clips \cup Setting) /\ old(list) \subseteq Clips
      BY <1>3, <3>1 DEF Short, History, ClipsOf
    <3> HIDE DEF new
    <3>3. /\ g \in Frame /\ g.pc = "edit" /\ g.op = frame[w].op /\ g.clip = frame[w].clip
          /\ g.list = new(list) /\ g.gone = old(list) /\ g.todo = old(list)
      BY <1>6, <3>2 DEF Frame, Points
    <3>4. Goes(w, g) /\ lock' = w /\ dispatch' = dispatch
      BY <1>2, <2>2 DEF list, new
    <3> HIDE DEF g
    <3>5. Edits(g, list, assets)
      BY <3>1, <3>3 DEF Edits
    <3>6. PointOK(g, assets)
      BY <1>1, <1>6, <2>2, <3>3 DEF PointOK
    <3> QED
      BY <1>6, <3>3, <3>4, <3>5, <3>6
  <2> QED
    BY <2>1, <2>2
<1>8. /\ frame' \in [Workers -> Frame] /\ frame'[w] = g
      /\ \A v \in Workers \ {w} : frame'[v] = frame[v]
  BY <1>7, GoesTo DEF Inv
<1>9. \A v \in Workers : frame[v].pc # "edit"
  BY <1>1, FrameFacts, ShareClipAssumption
<1>10. TypeInv'
  BY <1>1, <1>3, <1>4, <1>8 DEF Inv, TypeInv
<1>11. LockInv'
  BY <1>1, <1>7, <1>8, <1>9 DEF Inv, LockInv
<1>12. PointInv'
  BY <1>1, <1>7, <1>8 DEF Inv, PointInv
<1>13. FreshInv'
  <2>1. \A v \in Workers : frame'[v].clip = frame[v].clip
    BY <1>7, <1>8
  <2>2. ClipsOf(sent)' = ClipsOf(sent) /\ Old' = Old
    BY <1>1 DEF ClipsOf, Old
  <2> QED
    BY <1>1, <1>3, <2>1, <2>2 DEF Inv, FreshInv, Fresh
<1>14. EditInv'
  BY <1>1, <1>4, <1>7, <1>8, <1>9 DEF Inv, EditInv
<1>15. SettingInv'
  BY <1>1, <1>7, SettingQuiet
<1>16. AssetsExact'
  <2>1. ASSUME ~misread', ~broken
        PROVE  ~misread
    BY <1>2, <2>1
  <2>2. ASSUME ~misread', ~broken, NEW c \in HasFile \ Old, c \in Listed'
        PROVE  c \in assets
    <3>1. c \in Listed
      BY <1>3, <2>2
    <3> QED
      BY <1>9, <2>1, <2>2, <3>1 DEF Inv, AssetsExact, Old, Listed
  <2>3. ASSUME ~misread', ~broken, NEW c \in assets
        PROVE  c \in Listed' \/ \E v \in Workers : frame'[v].clip = c
    <3>1. c \in Listed \/ \E v \in Workers : frame[v].clip = c
      BY <2>1, <2>3 DEF Inv, AssetsExact, Listed
    <3>2. c \in Listed => c \in Listed'
      BY <1>3, <1>5, <2>3 DEF Listed, ClipsOf
    <3> QED
      BY <1>7, <1>8, <3>1, <3>2
  <2> QED
    BY <1>1, <2>2, <2>3 DEF AssetsExact, Old, Listed, ClipsOf
<1> QED
  BY <1>3, <1>10, <1>11, <1>12, <1>13, <1>14, <1>15, <1>16 DEF Inv

\* The answers, when a clip has been put in front.
LEMMA PushKeeps ==
  ASSUME Inv, NEW w \in Workers, frame[w].pc = "edit", frame[w].op = "set",
         disk'.there, disk'.list = frame[w].list, sent' = Append(sent, frame[w].clip),
         deleted' = deleted, misread' = misread
  PROVE  KeptInv' /\ Listed' \subseteq Listed \cup {frame[w].clip}
         /\ frame[w].clip \in Listed'
<1> DEFINE c == frame[w].clip
           new == frame[w].list
           list == disk.list
           n == Len(sent)
<1>1. /\ Short(new) /\ Pushed(new, c, list) /\ frame[w] \in Frame /\ Fresh(w, c)
      /\ c \in Clips
  BY FrameFacts DEF Edits, PointOK, Frame
<1>2. /\ Short(list) /\ list \in Seq(Clips) /\ new \in Seq(Clips) /\ sent \in Seq(Clips)
      /\ MAX_HISTORY \in Nat \ {0} /\ Len(list) <= MAX_HISTORY
  BY <1>1, ShareClipAssumption DEF Inv, TypeInv, Short, History
<1>3. Len(list) \in Nat /\ Len(new) \in Nat /\ n \in Nat
  BY <1>2
<1>4. /\ DOMAIN list = 1..Len(list) /\ DOMAIN new = 1..Len(new) /\ DOMAIN sent = 1..n
  BY <1>2
<1>5. /\ sent' \in Seq(Clips) /\ Len(sent') = n + 1 /\ DOMAIN sent' = 1..(n + 1)
      /\ sent'[n + 1] = c /\ \A i \in 1..n : sent'[i] = sent[i]
  BY <1>1, <1>2
<1>6. /\ c \notin Listed /\ \A i \in 1..n : sent[i] # c
      /\ c \notin deleted
  BY <1>1, <1>4 DEF Fresh, ClipsOf, Inv, FreshInv
<1>7. ~misread =>
        /\ \A j \in 1..Len(list), i \in 1..n : list[j] = sent[i] => n - i >= j - 1
        /\ \A i \in 1..n : sent[i] \in Listed \cup deleted \/ n - i >= MAX_HISTORY
        /\ Listed \cap deleted = {}
  BY <1>4 DEF Inv, KeptInv, AnswersKept, Listed
<1> HIDE DEF c, new, list, n
<1>8. /\ Len(new) >= 1 /\ new[1] = c
      /\ \A j \in 2..Len(new) : j - 1 \in 1..Len(list) /\ new[j] = list[j - 1]
      /\ \A k \in 1..Len(list) : k < MAX_HISTORY => k + 1 \in 1..Len(new) /\ new[k + 1] = list[k]
  BY <1>1 DEF Pushed
<1>9. Listed = {list[i] : i \in 1..Len(list)} /\ Listed' = {new[i] : i \in 1..Len(new)}
  BY <1>4 DEF Listed, ClipsOf, list, new
<1>10. Listed' \subseteq Listed \cup {c} /\ c \in Listed'
  <2>1. ASSUME NEW j \in 1..Len(new) PROVE new[j] \in Listed \cup {c}
    <3>1. CASE j = 1
      BY <1>8, <3>1
    <3>2. CASE j # 1
      BY <1>3, <1>8, <1>9, <3>2
    <3> QED
      BY <3>1, <3>2
  <2>2. 1 \in 1..Len(new)
    BY <1>3, <1>8
  <2> QED
    BY <1>8, <1>9, <2>1, <2>2
<1>11. ASSUME ~misread
       PROVE  \A j \in DOMAIN disk'.list, i \in DOMAIN sent' :
                disk'.list[j] = sent'[i] => Len(sent') - i >= j - 1
  <2> SUFFICES ASSUME NEW j \in 1..Len(new), NEW i \in 1..(n + 1), new[j] = sent'[i]
               PROVE  (n + 1) - i >= j - 1
    BY <1>4, <1>5 DEF new
  <2>1. CASE j = 1
    BY <1>3, <2>1
  <2>2. CASE j # 1
    <3>0. j \in 2..Len(new)
      BY <1>3, <2>2
    <3>1. j - 1 \in 1..Len(list) /\ new[j] = list[j - 1]
      BY <1>8, <3>0
    <3>2. new[j] # c
      BY <1>6, <1>9, <3>1
    <3>3. i \in 1..n /\ sent'[i] = sent[i]
      BY <1>3, <1>5, <3>2
    <3>4. n - i >= (j - 1) - 1
      BY <1>7, <1>11, <3>1, <3>3
    <3> QED
      BY <1>3, <3>1, <3>3, <3>4
  <2> QED
    BY <2>1, <2>2
<1>12. ASSUME ~misread, NEW i \in 1..(n + 1)
       PROVE  sent'[i] \in Listed' \cup deleted' \/ Len(sent') - i >= MAX_HISTORY
  <2>1. CASE i = n + 1
    BY <1>5, <1>10, <2>1
  <2>2. CASE i # n + 1
    <3>1. i \in 1..n /\ sent'[i] = sent[i]
      BY <1>3, <1>5, <2>2
    <3>2. CASE sent[i] \in Listed
      <4>1. PICK k \in 1..Len(list) : sent[i] = list[k]
        BY <1>9, <3>2
      <4>2. CASE k < MAX_HISTORY
        BY <1>8, <1>9, <3>1, <4>1, <4>2
      <4>3. CASE ~(k < MAX_HISTORY)
        <5>1. n - i >= k - 1
          BY <1>7, <1>12, <3>1, <4>1
        <5> QED
          BY <1>2, <1>3, <1>5, <3>1, <4>3, <5>1
      <4> QED
        BY <4>2, <4>3
    <3>3. CASE sent[i] \in deleted
      BY <3>1, <3>3
    <3>4. CASE n - i >= MAX_HISTORY
      BY <1>2, <1>3, <1>5, <3>1, <3>4
    <3> QED
      BY <1>7, <1>12, <3>1, <3>2, <3>3, <3>4
  <2> QED
    BY <2>1, <2>2
<1>13. ~misread => Listed' \cap deleted' = {}
  BY <1>6, <1>7, <1>10
<1>14. AnswersKept'
  BY <1>5, <1>12, <1>13 DEF AnswersKept, Listed
<1> QED
  BY <1>10, <1>11, <1>14 DEF KeptInv, c

\* The answers, when clips have been taken out.
LEMMA ThinKeeps ==
  ASSUME Inv, NEW w \in Workers, frame[w].pc = "edit", frame[w].op = "delete",
         disk'.there, disk'.list = frame[w].list, sent' = sent,
         deleted' = deleted \cup frame[w].gone, misread' = misread
  PROVE  KeptInv' /\ Listed' \subseteq Listed
<1> DEFINE new == frame[w].list
           list == disk.list
           n == Len(sent)
<1>1. Short(new) /\ Thinned(new, list) /\ frame[w].gone = ClipsOf(list) \ ClipsOf(new)
  BY FrameFacts DEF Edits
<1>2. /\ list \in Seq(Clips) /\ new \in Seq(Clips) /\ sent \in Seq(Clips)
  BY <1>1 DEF Inv, TypeInv, Short, History
<1>3. Len(list) \in Nat /\ Len(new) \in Nat /\ n \in Nat
  BY <1>2
<1>4. /\ DOMAIN list = 1..Len(list) /\ DOMAIN new = 1..Len(new) /\ DOMAIN sent = 1..n
  BY <1>2
<1>5. ~misread =>
        /\ \A j \in 1..Len(list), i \in 1..n : list[j] = sent[i] => n - i >= j - 1
        /\ \A i \in 1..n : sent[i] \in Listed \cup deleted \/ n - i >= MAX_HISTORY
        /\ Listed \cap deleted = {}
  BY <1>4 DEF Inv, KeptInv, AnswersKept, Listed
<1> HIDE DEF new, list, n
<1>6. \A j \in 1..Len(new) : \E k \in j..Len(list) : new[j] = list[k]
  BY <1>1 DEF Thinned
<1>7. Listed = {list[i] : i \in 1..Len(list)} /\ Listed' = {new[i] : i \in 1..Len(new)}
  BY <1>4 DEF Listed, ClipsOf, list, new
<1>8. Listed' \subseteq Listed /\ deleted' = deleted \cup (Listed \ Listed')
  <2>1. Listed' \subseteq Listed
    BY <1>3, <1>6, <1>7
  <2> QED
    BY <1>1, <2>1 DEF Listed, list, new
<1>9. ASSUME ~misread
      PROVE  \A j \in DOMAIN disk'.list, i \in DOMAIN sent' :
                disk'.list[j] = sent'[i] => Len(sent') - i >= j - 1
  <2> SUFFICES ASSUME NEW j \in 1..Len(new), NEW i \in 1..n, new[j] = sent[i]
               PROVE  n - i >= j - 1
    BY <1>4 DEF new, n
  <2>1. PICK k \in j..Len(list) : new[j] = list[k]
    BY <1>6
  <2>2. k \in 1..Len(list) /\ k >= j
    BY <1>3, <2>1
  <2>3. n - i >= k - 1
    BY <1>5, <1>9, <2>1, <2>2
  <2> QED
    BY <1>3, <2>2, <2>3
<1>10. AnswersKept'
  <2> SUFFICES ASSUME ~misread
               PROVE  /\ \A i \in 1..n : sent[i] \in Listed' \cup deleted' \/ n - i >= MAX_HISTORY
                      /\ Listed' \cap deleted' = {}
    BY <1>4 DEF AnswersKept, Listed, n
  <2> QED
    BY <1>5, <1>8
<1> QED
  BY <1>8, <1>9, <1>10 DEF KeptInv

LEMMA SaveStep ==
  ASSUME Inv, NEW w \in Workers, save_profile_state(w)
  PROVE  Inv'
<1>1. /\ frame[w].pc = "edit" /\ frame[w].todo = {}
      /\ UNCHANGED <<embedded, assets, config, stored, made, named, misread>>
  BY DEF save_profile_state
<1>2. /\ frame[w] \in Frame /\ PointOK(frame[w], assets) /\ lock = w
      /\ Edits(frame[w], disk.list, assets)
      /\ embedded => dispatch = w
      /\ frame[w].clip # None => Fresh(w, frame[w].clip)
      /\ frame[w].op \in {"set", "delete"}
  BY <1>1, FrameFacts DEF PointOK
<1>3. CASE Fails(w) /\ UNCHANGED <<disk, sent, deleted>>
  <2>1. /\ config' \in Setting /\ stored' \in Setting /\ named' \in Setting
        /\ assets' \subseteq Clips
    BY <1>1 DEF Inv, TypeInv
  <2> QED
    BY <1>1, <1>3, <2>1, FailsStep
<1>4. CASE /\ disk' = [there |-> TRUE, list |-> frame[w].list]
           /\ sent' = IF frame[w].op = "set" THEN Append(sent, frame[w].clip) ELSE sent
           /\ deleted' = IF frame[w].op = "delete" THEN deleted \cup frame[w].gone ELSE deleted
           /\ Ends(w) /\ Frees(w)
           /\ UNCHANGED <<faults, broken>>
  <2>1. disk'.there /\ disk'.list = frame[w].list /\ disk' \in [there : BOOLEAN, list : History]
    BY <1>2, <1>4 DEF Edits, Short
  <2>2. /\ KeptInv' /\ Listed' \subseteq Listed \cup {frame[w].clip}
        /\ frame[w].op = "set" => frame[w].clip \in Listed'
        /\ frame[w].op = "delete" => Listed' \subseteq Listed
    <3>1. CASE frame[w].op = "set"
      BY <1>1, <1>4, <2>1, <3>1, PushKeeps
    <3>2. CASE frame[w].op = "delete"
      BY <1>1, <1>4, <2>1, <3>2, ThinKeeps
    <3> QED
      BY <1>2, <3>1, <3>2
  <2>3. frame[w].gone = Listed \ Listed'
    BY <1>2, <2>1 DEF Edits, Listed, ClipsOf
  <2>4. /\ Goes(w, Idle) /\ \A v \in Workers \ {w} : dispatch = v => dispatch' = v
    BY <1>4, EndsAt DEF Inv
  <2>5. /\ frame' \in [Workers -> Frame] /\ frame'[w] = Idle
        /\ \A v \in Workers \ {w} : frame'[v] = frame[v]
    BY <2>4, IdleFrame, GoesTo DEF Inv
  <2>6. \A v \in Workers : frame'[v].pc # "edit"
    <3>1. \A v \in Workers \ {w} : frame[v].pc # "edit"
      BY <1>2, FrameFacts
    <3> QED
      BY <2>5, <3>1, IdleFrame
  <2>7. sent' \in Seq(Clips) /\ deleted' \subseteq Clips
        /\ ClipsOf(sent)' = ClipsOf(sent) \cup IF frame[w].op = "set" THEN {frame[w].clip} ELSE {}
    <3>1. sent \in Seq(Clips) /\ deleted \subseteq Clips /\ frame[w].gone \subseteq Clips
      BY <1>2 DEF Inv, TypeInv, Frame
    <3>2. CASE frame[w].op = "set"
      <4>1. frame[w].clip \in Clips /\ sent' = Append(sent, frame[w].clip) /\ deleted' = deleted
        BY <1>2, <1>4, <3>2 DEF PointOK, Frame
      <4>2. Len(sent) \in Nat /\ DOMAIN sent = 1..Len(sent) /\ DOMAIN sent' = 1..(Len(sent) + 1)
        BY <3>1, <4>1
      <4>3. /\ \A i \in 1..Len(sent) : sent'[i] = sent[i]
            /\ sent'[Len(sent) + 1] = frame[w].clip /\ sent' \in Seq(Clips)
        BY <3>1, <4>1
      <4>4. ClipsOf(sent)' = ClipsOf(sent) \cup {frame[w].clip}
        BY <4>2, <4>3 DEF ClipsOf
      <4> QED
        BY <3>1, <3>2, <4>1, <4>3, <4>4
    <3>3. CASE frame[w].op # "set"
      BY <1>4, <3>1, <3>3 DEF ClipsOf
    <3> QED
      BY <3>2, <3>3
  <2>8. TypeInv'
    BY <1>1, <1>2, <2>1, <2>5, <2>7 DEF Inv, TypeInv, Edits
  <2>9. LockInv'
    BY <1>1, <2>4, <2>5, <2>6, IdleFrame DEF Inv, LockInv
  <2>10. PointInv'
    <3>1. PointOK(Idle, assets)
      BY IdleFrame, ShareClipAssumption DEF PointOK
    <3> QED
      BY <1>1, <2>5, <3>1 DEF Inv, PointInv
  <2>11. FreshInv'
    <3>1. Listed \subseteq Old \cup ClipsOf(sent) /\ deleted \subseteq Old \cup ClipsOf(sent)
      BY DEF Inv, FreshInv
    <3>2. Listed' \subseteq Old \cup ClipsOf(sent)'
      BY <1>2, <2>2, <2>7, <3>1
    <3>3. deleted' \subseteq Old \cup ClipsOf(sent)'
      BY <1>2, <1>4, <2>3, <2>7, <3>1
    <3>4. ASSUME NEW v \in Workers, frame'[v].clip # None
          PROVE  /\ frame'[v].clip \notin Old \cup Listed' \cup ClipsOf(sent)'
                 /\ \A u \in Workers \ {v} : frame'[u].clip # frame'[v].clip
      <4>1. v # w /\ frame'[v] = frame[v]
        BY <2>5, <3>4, IdleFrame
      <4>2. Fresh(v, frame[v].clip) /\ frame[v].clip # frame[w].clip
        BY <3>4, <4>1, FrameFacts DEF Fresh
      <4>3. frame[v].clip \notin Old \cup Listed' \cup ClipsOf(sent)'
        BY <2>2, <2>7, <4>2 DEF Fresh
      <4>4. \A u \in Workers \ {v} : frame'[u].clip # frame[v].clip
        BY <2>5, <3>4, <4>1, <4>2, IdleFrame DEF Fresh
      <4> QED
        BY <4>1, <4>3, <4>4
    <3> QED
      BY <3>2, <3>3, <3>4 DEF FreshInv, Fresh, Old
  <2>12. EditInv'
    BY <2>6 DEF EditInv
  <2>13. SettingInv'
    <3>1. UNCHANGED broken
      BY <1>4
    <3> QED
      BY <1>1, <2>4, <3>1, IdleFrame, SettingQuiet
  <2>14. AssetsExact'
    <3>1. ASSUME ~misread, ~broken, NEW c \in HasFile \ Old, c \in Listed'
          PROVE  c \in assets
      <4>1. CASE c = frame[w].clip
        BY <1>1, <1>2, <3>1, <4>1 DEF PointOK
      <4>2. CASE c # frame[w].clip
        <5>1. c \in Listed
          BY <2>2, <3>1, <4>2
        <5>2. c \in assets \/ \E v \in Workers : frame[v].pc = "edit" /\ c \in frame[v].gone
          BY <3>1, <5>1 DEF Inv, AssetsExact, Old, Listed
        <5>3. \A v \in Workers : frame[v].pc = "edit" => v = w
          BY <1>2, FrameFacts
        <5> QED
          BY <2>3, <3>1, <5>2, <5>3
      <4> QED
        BY <4>1, <4>2
    <3>2. ASSUME ~misread, ~broken, NEW c \in assets
          PROVE  c \in Listed' \/ \E v \in Workers : frame'[v].clip = c
      <4>1. c \notin frame[w].gone
        BY <1>1, <1>2, <3>2 DEF Edits
      <4>2. CASE c \in Listed
        BY <2>3, <4>1, <4>2
      <4>3. CASE c \notin Listed
        <5>1. PICK v \in Workers : frame[v].clip = c
          BY <3>2, <4>3 DEF Inv, AssetsExact, Listed
        <5>2. CASE v = w
          <6>1. c # None
            BY <3>2, ShareClipAssumption DEF Inv, TypeInv
          <6> QED
            BY <1>2, <2>2, <5>1, <5>2, <6>1 DEF PointOK
        <5>3. CASE v # w
          BY <2>5, <5>1, <5>3
        <5> QED
          BY <5>2, <5>3
      <4> QED
        BY <4>2, <4>3
    <3> QED
      BY <1>1, <1>4, <3>1, <3>2 DEF AssetsExact, Old, Listed, ClipsOf
  <2> QED
    BY <2>2, <2>8, <2>9, <2>10, <2>11, <2>12, <2>13, <2>14 DEF Inv
<1> QED
  BY <1>1, <1>3, <1>4 DEF save_profile_state

LEMMA CrashStep ==
  ASSUME Inv, Crash
  PROVE  Inv'
<1>1. /\ broken' = (broken \/ \E w \in Workers : frame[w].pc # "idle")
      /\ frame' = [w \in Workers |-> Idle] /\ lock' = None /\ dispatch' = None
      /\ config' = stored
      /\ UNCHANGED <<embedded, disk, assets, stored, made, misread>>
      /\ UNCHANGED <<sent, deleted, named>>
  BY DEF Crash, ghosts
<1>2. \A w \in Workers : frame'[w] = Idle
  BY <1>1
<1>3. TypeInv'
  BY <1>1, <1>2, IdleFrame DEF Inv, TypeInv
<1>4. LockInv' /\ EditInv'
  BY <1>2, IdleFrame DEF LockInv, EditInv
<1>5. PointInv'
  BY <1>2, IdleFrame, ShareClipAssumption DEF PointInv, PointOK
<1>6. FreshInv'
  BY <1>1, <1>2, IdleFrame DEF Inv, FreshInv, Old, Listed, ClipsOf
<1>7. KeptInv'
  BY <1>1 DEF Inv, KeptInv, AnswersKept, ClipsOf
<1>8. SettingInv'
  BY <1>1, <1>2, IdleFrame DEF Inv, SettingInv
<1>9. AssetsExact'
  <2> SUFFICES ASSUME ~misread, ~broken, \A w \in Workers : frame[w].pc = "idle"
               PROVE  /\ \A c \in HasFile \ Old : c \in Listed => c \in assets
                      /\ \A c \in assets : c \in Listed
    BY <1>1 DEF AssetsExact, Old, Listed, ClipsOf
  <2>1. \A w \in Workers : frame[w].clip = None
    BY DEF Inv, PointInv, PointOK
  <2>2. None \notin assets
    BY ShareClipAssumption DEF Inv, TypeInv
  <2> QED
    BY <2>1, <2>2 DEF Inv, AssetsExact, Old, Listed
<1> QED
  BY <1>3, <1>4, <1>5, <1>6, <1>7, <1>8, <1>9 DEF Inv

\* The first state has it.
LEMMA InitInv == Init => Inv
<1> SUFFICES ASSUME Init PROVE Inv
  OBVIOUS
<1>1. /\ \A w \in Workers : frame[w] = Idle
      /\ disk.list = << >> /\ disk.there = FALSE
      /\ sent = << >> /\ deleted = {} /\ assets = {} /\ named = config /\ stored = config
      /\ DOMAIN disk.list = {} /\ DOMAIN sent = {}
  BY DEF Init
<1>2. << >> \in History /\ Len(<< >>) = 0 /\ << >> \in Seq(Clips)
  BY DEF History
<1>3. TypeInv
  <2>1. frame \in [Workers -> Frame]
    BY IdleFrame DEF Init
  <2>2. disk \in [there : BOOLEAN, list : History] /\ Short(disk.list)
    BY <1>2, ShareClipAssumption DEF Init, Short
  <2> QED
    BY <1>1, <1>2, <2>1, <2>2 DEF Init, TypeInv, Setting
<1>4. LockInv /\ EditInv
  BY <1>1, IdleFrame DEF LockInv, EditInv
<1>5. PointInv
  BY <1>1, IdleFrame, ShareClipAssumption DEF PointInv, PointOK
<1>6. FreshInv
  BY <1>1, IdleFrame DEF FreshInv, Listed, ClipsOf
<1>7. KeptInv /\ AssetsExact
  BY <1>1 DEF KeptInv, AnswersKept, AssetsExact, ClipsOf
<1>8. SettingInv
  BY <1>1, IdleFrame DEF SettingInv
<1> QED
  BY <1>3, <1>4, <1>5, <1>6, <1>7, <1>8 DEF Inv

\* Every step keeps the invariant.
LEMMA NextInv == Inv /\ [Next]_vars => Inv'
<1> SUFFICES ASSUME Inv, [Next]_vars PROVE Inv'
  OBVIOUS
<1>1. ASSUME NEW w \in Workers, Request(w) PROVE Inv'
  BY <1>1, SetClipStep, DeleteStep, GetStep, SetConfigStep, SaveAssetStep, LoadStep, LoadFailsStep,
     DeleteAssetStep, SaveStep, SaveConfigStep DEF Request
<1>2. CASE UNCHANGED vars
  <2>1. UNCHANGED <<embedded, dispatch, lock, disk, assets, config, stored, frame, sent, deleted,
                    named, misread, broken>>
    BY <1>2 DEF vars
  <2>2. TypeInv' /\ LockInv' /\ PointInv'
    BY <2>1 DEF Inv, TypeInv, LockInv, PointInv
  <2>3. FreshInv' /\ EditInv'
    BY <2>1 DEF Inv, FreshInv, Fresh, Old, Listed, ClipsOf, EditInv
  <2>4. KeptInv'
    BY <2>1 DEF Inv, KeptInv, AnswersKept, ClipsOf
  <2>5. SettingInv' /\ AssetsExact'
    BY <2>1 DEF Inv, SettingInv, SettingOK, AssetsExact, ClipsOf
  <2> QED
    BY <2>2, <2>3, <2>4, <2>5 DEF Inv
<1> QED
  BY <1>1, <1>2, CrashStep DEF Next

-----------------------------------------------------------------------------
\* The invariant above holds in every state of every run of shareclip/app.py
\* that the model has, with all that is said there of locks, lists and files.
THEOREM InvAlways == Spec => []Inv
BY InitInv, NextInv, PTL DEF Spec

\* A clip whose sending was answered with ok stays until it is deleted or
\* MAX_HISTORY later ones push it out, and a deleted one never comes back, in
\* whatever order set_clip, bulk_delete_history and get_clip run, fail or are cut
\* off by a crash.
THEOREM AnswersKeptAlways == Spec => []AnswersKept
<1>1. Inv => AnswersKept
  BY DEF Inv, KeptInv, AnswersKept
<1> QED
  BY <1>1, InvAlways, PTL

\* No clip without its file and no file without its clip, as long as no request
\* has ended half-way: delete_asset before save_profile_state, the upload before
\* the load.  Of a file whose unlink failed delete_asset makes an exception, and
\* so does this.
THEOREM AssetsExactAlways == Spec => []AssetsExact
<1>1. Inv => AssetsExact
  BY DEF Inv
<1> QED
  BY <1>1, InvAlways, PTL

\* Inside AfterClaw set_config loses no setting that another request named, since
\* the dispatch lock is held from the reading of runtime_config to the save.
THEOREM SettingsKeptAlways == Spec => []SettingsKept
<1>1. Inv => SettingsKept
  BY DEF Inv, SettingInv, SettingsKept
<1> QED
  BY <1>1, InvAlways, PTL

\* The holders of the locks are workers.
LEMMA TypeStep == Inv /\ Inv' /\ TypeOK /\ [Next]_vars => TypeOK'
<1> SUFFICES ASSUME Inv, Inv', TypeOK, [Next]_vars PROVE TypeOK'
  OBVIOUS
<1> DEFINE Some == Workers \cup {None}
<1>1. /\ dispatch' \in Some /\ lock' \in Some /\ assets' \cup left' \subseteq HasFile
  <2>1. dispatch \in Some /\ lock \in Some /\ assets \cup left \subseteq HasFile
    BY DEF TypeOK
  <2>2. CASE UNCHANGED vars \/ Crash
    BY <2>1, <2>2 DEF vars, Crash
  <2>3. ASSUME NEW w \in Workers, Request(w)
        PROVE  dispatch' \in Some /\ lock' \in Some /\ assets' \cup left' \subseteq HasFile
    <3>1. ASSUME NEW f, Begin(w, f)
          PROVE  dispatch' \in Some /\ lock' \in Some /\ assets' \cup left' \subseteq HasFile
      BY <2>1, <3>1 DEF Begin
    <3>2. CASE set_clip(w)
      BY <3>1, <3>2 DEF set_clip
    <3>3. CASE bulk_delete_history(w) \/ get_clip(w)
      BY <3>1, <3>3 DEF bulk_delete_history, get_clip
    <3>4. CASE set_config(w)
      BY <3>1, <3>4 DEF set_config
    <3>5. CASE SaveAsset(w)
      <4>1. frame[w].clip \in HasFile
        BY <3>5, FrameFacts DEF SaveAsset, PointOK
      <4> QED
        BY <2>1, <3>5, <4>1 DEF SaveAsset, Fails, Ends, Frees
    <3>6. CASE Load(w) \/ LoadFails(w)
      BY <2>1, <3>6 DEF Load, LoadFails, Fails, Ends, Frees
    <3>7. CASE delete_asset(w)
      BY <2>1, <3>7 DEF delete_asset
    <3>8. CASE save_profile_state(w)
      BY <2>1, <3>8 DEF save_profile_state, Fails, Ends, Frees
    <3>9. CASE SaveConfig(w)
      BY <2>1, <3>9 DEF SaveConfig, Fails, Ends, Frees
    <3> QED
      BY <2>3, <3>2, <3>3, <3>4, <3>5, <3>6, <3>7, <3>8, <3>9 DEF Request
  <2> QED
    BY <2>2, <2>3 DEF Next
<1>2. TypeInv'
  BY DEF Inv
<1> QED
  BY <1>1, <1>2 DEF TypeInv, TypeOK, Short, History, Frame, Points, Setting

\* The variables have the shape that the code gives them (embedded and standalone).
THEOREM TypeOKAlways == Spec => []TypeOK
<1>1. Init => TypeOK
  <2> SUFFICES ASSUME Init PROVE TypeOK
    OBVIOUS
  <2>1. TypeInv
    BY InitInv DEF Inv
  <2>2. dispatch = None /\ lock = None /\ assets = {} /\ left = {}
    BY DEF Init
  <2> QED
    BY <2>1, <2>2 DEF TypeInv, TypeOK, Short, History, Frame, Points, Setting
<1> QED
  BY <1>1, InvAlways, TypeStep, PTL DEF Spec
=============================================================================
