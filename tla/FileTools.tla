----------------------------- MODULE FileTools -----------------------------
(* Cleaning file names, aligning subtitles with videos and uploading         *)
(* subtitles (naming/clean_names.py, fcc/subtitle_align.py,                  *)
(* fcc/subtitle_uploads.py).  A name is a sequence of words, which dots      *)
(* separate in the file name, and an extension; a path is a sequence of      *)
(* names.  The page shows a plan and later sends it back: others may change  *)
(* the tree in between, and between any check and the call that relies on it.*)
EXTENDS Integers, Sequences, FiniteSets, SequencesExt, Filter

CONSTANTS
    Workers,
    Cjk,         \* Chinese words
    Removed,     \* words the user asks to remove
    Years,       \* words 20xx
    Episodes,    \* words SxxEyy: _SEASON_RE and TOKEN_RE
    Langs,       \* words that name a language
    Dots,        \* the names . and ..
    Copies,      \* the words 1, 2, .. that make a name unique, in their order
    VIDEO, SUBTITLE,  \* the extension of a video, of a subtitle
    Dir,         \* what is at the path of a directory
    Torn,        \* what a write that failed leaves
    Nothing,
    Trees,       \* trees to begin with: functions from paths
    Items,       \* uploads: [kind, members], members a sequence of [path, datum]; the
                 \* kind is "direct", "zip" or "tar", which any other archive is too,
                 \* since what an outside program unpacks has different paths
    Speaks,      \* the languages of the subtitles of which a test is made
    MaxRequests, \* bound: requests
    MaxFaults    \* bound: calls of the file system that fail

-----------------------------------------------------------------------------
(* Names *)
Has(words, W) == \E i \in DOMAIN words : words[i] \in W
At(words, W)  == Min({i \in DOMAIN words : words[i] \in W})

reorder_season_before_year(words) ==
    IF Has(words, Episodes) /\ Has(words, Years)
    THEN LET s    == At(words, Episodes)
             rest == RemoveAt(words, s)
         IN  InsertAt(rest, At(rest, Years), words[s])
    ELSE words

clean_basename(words, season) ==
    LET kept == Filter(words, Range(words) \ (Cjk \cup Removed))
    IN  IF season THEN reorder_season_before_year(kept) ELSE kept

_token(words) == IF Has(words, Episodes) THEN words[At(words, Episodes)] ELSE Nothing
_suffix_after_token(words) ==
    IF Has(words, Episodes) THEN SubSeq(words, At(words, Episodes) + 1, Len(words)) ELSE << >>
\* Mutant: one language only.
compact_to_one(tail) ==
    IF Len(tail) <= 1 /\ \A i \in DOMAIN tail : tail[i] \in Langs THEN tail ELSE << >>
_compact_subtitle_suffix(tail) ==
    IF Len(tail) <= 3 /\ \A i \in DOMAIN tail : tail[i] \in Langs THEN tail ELSE << >>

-----------------------------------------------------------------------------
(* Assumptions *)
\* The directories a path leads through.
Above(p) == {SubSeq(p, 1, i) : i \in 1..(Len(p) - 1)}
IsName(n) == DOMAIN n = {"words", "ext"} /\ n.words \in Seq(Range(n.words))
\* A subtitle of which a test is made has its languages after the episode.
Told(n, datum) ==
    datum \in DOMAIN Speaks =>
      n.ext = SUBTITLE /\ Speaks[datum] \subseteq Langs \cap Range(_suffix_after_token(n.words))

(* No name consists of words that are removed, and languages stay.  What is  *)
(* not at the root is in a directory.                                        *)
ASSUME FileToolsAssumption ==
    /\ Langs \cap (Removed \cup Cjk \cup Episodes \cup Years) = {}
    /\ Years \cap Episodes = {} /\ Nothing \notin Episodes
    /\ {Dir, Torn} \cap DOMAIN Speaks = {}
    /\ Copies \in Seq(Range(Copies))
    /\ \A t \in Trees : \A p \in DOMAIN t :
         /\ p \in Seq(Range(p)) \ {<< >>}
         /\ \A d \in Above(p) : d \in DOMAIN t /\ t[d] = Dir
         /\ IsName(Last(p)) /\ Told(Last(p), t[p])
         /\ \E i \in DOMAIN Last(p).words : Last(p).words[i] \notin Removed \cup Cjk
    /\ \A u \in Items :
         /\ u.members \in Seq(Range(u.members))
         /\ \A m \in Range(u.members) : IsName(Last(m.path)) /\ Told(Last(m.path), m.datum)
    /\ MaxRequests \in Nat /\ MaxFaults \in Nat

-----------------------------------------------------------------------------
VARIABLES
    tree,    \* the files and directories under the root
    frame,   \* the requests under way, and the plans pages show
    made, faults,
    data,    \* what was in the tree at first and what is owed for uploads
    raced,   \* a call relied on a check that another request had made stale
    gone,    \* a row of a plan no one had interfered with did not find its source
    plain    \* names in the tree have always been Plain

fileVars == <<tree, frame, made, faults, data, raced, gone, plain>>
ghosts   == <<data, raced, gone, plain>>

Idle == [pc |-> "idle", rows |-> {}, row |-> << >>, dir |-> << >>, kind |-> "none",
         files |-> << >>, owed |-> {}, fresh |-> TRUE, checked |-> TRUE]

-----------------------------------------------------------------------------
(* Trees *)
Exists(p)    == p \in DOMAIN tree
IsDir(p)     == p = << >> \/ (Exists(p) /\ tree[p] = Dir)
Base(p)      == Last(p)
Parent(p)    == Front(p)
Inside(p, d) == Len(p) > Len(d) /\ IsPrefix(d, p)
Under(d, recursive) == {p \in DOMAIN tree : IF recursive THEN Inside(p, d) ELSE p # << >> /\ Parent(p) = d}
_rel_depth(p) == Len(p) - 1

\* rename(2): the target is replaced when it is a file, or an empty directory.
Replaceable(a, b) ==
    Exists(b) => IF IsDir(a) THEN IsDir(b) /\ Under(b, TRUE) = {} ELSE ~IsDir(b)
Moved(p, a, b) == b \o SubSeq(p, Len(a) + 1, Len(p))
Renamed(a, b) ==
    LET old == {p \in DOMAIN tree : p = a \/ Inside(p, a)}
        new == {Moved(p, a, b) : p \in old}
    IN  [q \in (DOMAIN tree \ old) \cup new |->
           IF q \in new THEN tree[Moved(q, b, a)] ELSE tree[q]]
\* mkdir(parents=True) and a write, which a file in the way makes fail.
CanHave(p) == ~IsDir(p) /\ \A d \in Above(p) : Exists(d) => IsDir(d)
With(S, what) == [q \in DOMAIN tree \cup S |-> IF Exists(q) THEN tree[q] ELSE what]
MadeFor(p)       == With(Above(p), Dir)
Written(p, what) == [q \in DOMAIN MadeFor(p) \cup {p} |-> IF q = p THEN what ELSE MadeFor(p)[q]]

\* Names of subtitles from which alignment can tell the languages.
PlainName(n) ==
    LET tail == _suffix_after_token(n.words)
    IN  n.ext = SUBTITLE => /\ _token(n.words) # Nothing
                            /\ Len(tail) <= 3 /\ \A i \in DOMAIN tail : tail[i] \in Langs
Plain(t) == \A p \in DOMAIN t : PlainName(Base(p))

FileInit ==
    /\ tree \in Trees
    /\ frame = [w \in Workers |-> Idle]
    /\ made = 0 /\ faults = 0
    /\ data = {tree[p] : p \in DOMAIN tree} \ {Dir}
    /\ raced = FALSE /\ gone = FALSE
    /\ plain = Plain(tree)

Goes(w, f) == frame' = [frame EXCEPT ![w] = f]
\* The tree changes: what the others have seen and checked is stale.
Outdated(f) == [f EXCEPT !.fresh = FALSE, !.checked = FALSE]
Changes(w, f, new) ==
    /\ tree' = new
    /\ plain' = (plain /\ Plain(new))
    /\ frame' = [v \in Workers |-> IF v = w THEN f ELSE Outdated(frame[v])]
Fault == faults < MaxFaults /\ faults' = faults + 1

-----------------------------------------------------------------------------
(* Plans.  A row is an old and a new path; rows the preview marks with skip  *)
(* are not sent back by the page (app.py 4136-4137, 4228).                   *)
TargetOK(p, target) ==
    IF IsDir(p) THEN target \in {"both", "dirs"} ELSE target \in {"both", "files"}

build_rename_plan(d, target, recursive, season) ==
    {r \in {<<p, Append(Parent(p), [Base(p) EXCEPT !.words = clean_basename(@, season)])>> :
              p \in {q \in Under(d, recursive) : TargetOK(q, target)}} :
       r[2] # r[1] /\ ~Exists(r[2])}

Videos(d) == {p \in Under(d, FALSE) : ~IsDir(p) /\ Base(p).ext = VIDEO}
\* The video of a subtitle: the one with the same stem, or else the only one
\* with the same episode.
Matches(sub) ==
    LET words == Base(sub).words
        same  == {v \in Videos(Parent(sub)) : Base(v).words = words}
    IN  IF same # {} THEN same
        ELSE {v \in Videos(Parent(sub)) :
                _token(words) # Nothing /\ _token(Base(v).words) = _token(words)}
Aligned(sub, video) ==
    LET words == Base(sub).words
        keep  == IF Base(video).words = words THEN << >>
                 ELSE _compact_subtitle_suffix(_suffix_after_token(words))
    IN  Append(Parent(sub), [words |-> Base(video).words \o keep, ext |-> SUBTITLE])

build_alignment_plan(d, recursive) ==
    LET subs == {p \in Under(d, recursive) : ~IsDir(p) /\ Base(p).ext = SUBTITLE}
        Row(s) == <<s, Aligned(s, CHOOSE v \in Matches(s) : TRUE)>>
    IN  {r \in {Row(s) : s \in {s \in subs : Cardinality(Matches(s)) = 1}} :
           r[2] # r[1] /\ ~Exists(r[2])}

Plans(d, recursive) ==
    {build_alignment_plan(d, recursive)}
    \cup {build_rename_plan(d, target, recursive, season) :
            target \in {"both", "files", "dirs"}, season \in BOOLEAN}
Shown(plan) == [Idle EXCEPT !.pc = "shown", !.rows = plan]

\* clean_preview and subtitle_align_preview: the page shows the plan.
Preview(w) ==
    /\ frame[w].pc = "idle" /\ made < MaxRequests
    /\ made' = made + 1
    /\ \E d \in {p \in DOMAIN tree : IsDir(p)} \cup {<< >>}, recursive \in BOOLEAN :
         \E plan \in Plans(d, recursive) : plan # {} /\ Goes(w, Shown(plan))
    /\ UNCHANGED <<tree, faults, ghosts>>

(* apply_rename_plan: rows whose source is not there, or whose target is,    *)
(* are refused first; the others are taken deepest first, checked again and  *)
(* renamed.                                                                  *)
Apply(w) ==
    /\ frame[w].pc = "shown"
    /\ Goes(w, [frame[w] EXCEPT !.pc = "rows",
                  !.rows = {r \in @ : Exists(r[1]) /\ ~Exists(r[2])}])
    /\ gone' = (gone \/ (frame[w].fresh /\ \E r \in frame[w].rows : ~Exists(r[1])))
    /\ UNCHANGED <<tree, made, faults, data, raced, plain>>

\* Mutant: in the order of the listing, parents first.
Highest(rows) == {r \in rows : \A o \in rows : _rel_depth(o[1]) >= _rel_depth(r[1])}
Deepest(rows) == {r \in rows : \A o \in rows : _rel_depth(o[1]) <= _rel_depth(r[1])}

\* Mutant: the first check is taken to be enough.
CheckSource(w) ==
    /\ frame[w].pc = "rows"
    /\ \E r \in Deepest(frame[w].rows) :
         LET rest == [frame[w] EXCEPT !.rows = @ \ {r}, !.checked = TRUE]
         IN  /\ IF Exists(r[1])
                THEN Goes(w, [rest EXCEPT !.pc = "rename", !.row = r]) /\ UNCHANGED gone
                ELSE Goes(w, rest) /\ gone' = (gone \/ frame[w].fresh)
    /\ UNCHANGED <<tree, made, faults, data, raced, plain>>

CheckRow(w) ==
    /\ frame[w].pc = "rows"
    /\ \E r \in Deepest(frame[w].rows) :
         LET rest == [frame[w] EXCEPT !.rows = @ \ {r}, !.checked = TRUE]
         IN  IF Exists(r[1]) /\ ~Exists(r[2])
             THEN Goes(w, [rest EXCEPT !.pc = "rename", !.row = r]) /\ UNCHANGED gone
             ELSE Goes(w, rest) /\ gone' = (gone \/ (~Exists(r[1]) /\ frame[w].fresh))
    /\ UNCHANGED <<tree, made, faults, data, raced, plain>>

Rename(w) ==
    /\ frame[w].pc = "rename"
    /\ LET a == frame[w].row[1]
           b == frame[w].row[2]
           next == [frame[w] EXCEPT !.pc = "rows", !.row = << >>]
       IN  /\ raced' = (raced \/ ~frame[w].checked)
           /\ \/ /\ Exists(a) /\ IsDir(Parent(b)) /\ Replaceable(a, b)
                 /\ Changes(w, next, Renamed(a, b)) /\ UNCHANGED faults
              \/ /\ ~(Exists(a) /\ IsDir(Parent(b)) /\ Replaceable(a, b))
                 /\ Goes(w, next) /\ UNCHANGED <<tree, faults, plain>>
              \/ Fault /\ Goes(w, next) /\ UNCHANGED <<tree, plain>>
    /\ UNCHANGED <<made, data, gone>>

Answer(w) ==
    /\ frame[w].pc = "rows" /\ frame[w].rows = {}
    /\ Goes(w, Idle)
    /\ UNCHANGED <<tree, made, faults, ghosts>>

-----------------------------------------------------------------------------
(* handle_upload_payload, for one subtitle or one archive of them; whatever  *)
(* folders an archive has, its subtitles go into the directory itself.  What *)
(* else it holds is left out, and so is, without a word, what has . or .. in *)
(* its path.  A zip's entries are opened by name: of entries with one path,  *)
(* each gives the content of the last.                                       *)
_safe_member_rel(path) == Range(path) \cap Dots = {}
SubtitlesOf(u) == {m \in Range(u.members) : Last(m.path).ext = SUBTITLE}
Latest(u, i) ==
    \A j \in DOMAIN u.members : u.members[j].path = u.members[i].path => j <= i
Opened(u, m) ==
    IF u.kind = "zip"
    THEN u.members[CHOOSE i \in DOMAIN u.members : u.members[i].path = m.path /\ Latest(u, i)].datum
    ELSE m.datum
_extract_archive(u) ==
    LET subs == Filter(u.members, {m \in SubtitlesOf(u) : _safe_member_rel(m.path)})
    IN  [i \in DOMAIN subs |-> [name |-> Last(subs[i].path), datum |-> Opened(u, subs[i])]]

\* What is owed to who sends it: the subtitles with a safe path, and in a zip
\* the last one of each path.
Owed(u) ==
    LET Kept(i) == /\ u.members[i] \in SubtitlesOf(u) /\ _safe_member_rel(u.members[i].path)
                   /\ u.kind = "zip" => Latest(u, i)
    IN  {u.members[i].datum : i \in {j \in DOMAIN u.members : Kept(j)}}

subtitles_upload(w) ==
    /\ frame[w].pc = "idle" /\ made < MaxRequests
    /\ made' = made + 1
    /\ \E d \in {p \in DOMAIN tree : IsDir(p)} \cup {<< >>}, u \in Items :
         /\ SubtitlesOf(u) # {}
         /\ Goes(w, [Idle EXCEPT !.pc = "name", !.dir = d, !.kind = u.kind,
                          !.files = _extract_archive(u), !.owed = Owed(u)])
    /\ UNCHANGED <<tree, faults, ghosts>>

_unique_dest(p) ==
    LET Numbered(i) == Append(Parent(p), [Base(p) EXCEPT !.words = Append(@, Copies[i])])
        free == {i \in DOMAIN Copies : ~Exists(Numbered(i))}
    IN  IF ~Exists(p) THEN {p}
        ELSE IF free = {} THEN {}
        ELSE {Numbered(CHOOSE i \in free : \A j \in free : i <= j)}

\* The name is chosen; without a free one the upload is refused.  For a file
\* of an archive the directory is made first if it has gone meanwhile.
ChooseName(w) ==
    /\ frame[w].pc = "name" /\ frame[w].files # << >>
    /\ LET p    == Append(frame[w].dir, Head(frame[w].files).name)
           dest == _unique_dest(p)
           next == IF dest = {} THEN Idle
                   ELSE [frame[w] EXCEPT !.pc = "write", !.row = CHOOSE q \in dest : TRUE,
                                         !.checked = TRUE]
       IN  IF frame[w].kind = "direct" \/ MadeFor(p) = tree
           THEN Goes(w, next) /\ UNCHANGED <<tree, plain>>
           ELSE IF \A d \in Above(p) : Exists(d) => IsDir(d)
           THEN Changes(w, next, MadeFor(p))
           ELSE Goes(w, Idle) /\ UNCHANGED <<tree, plain>>
    /\ UNCHANGED <<made, faults, data, raced, gone>>

\* _save_direct_subtitle makes the directory again if it has gone,
\* _copy_subtitle_file does not; what is at the chosen path is overwritten.
Write(w) ==
    /\ frame[w].pc = "write"
    /\ LET f == frame[w]
           possible == CanHave(f.row) /\ (f.kind = "direct" \/ MadeFor(f.row) = tree)
           written == [f EXCEPT !.pc = "name", !.row = << >>, !.files = Tail(@)]
       IN  /\ raced' = (raced \/ ~f.checked)
           /\ \/ possible /\ Changes(w, written, Written(f.row, Head(f.files).datum))
                 /\ UNCHANGED faults
              \/ ~possible /\ Goes(w, Idle) /\ UNCHANGED <<tree, faults, plain>>
              \/ possible /\ Fault /\ Changes(w, Idle, Written(f.row, Torn))
    /\ UNCHANGED <<made, data, gone>>

\* The row of the upload is answered with ok.
Uploaded(w) ==
    /\ frame[w].pc = "name" /\ frame[w].files = << >>
    /\ data' = data \cup frame[w].owed
    /\ Goes(w, Idle)
    /\ UNCHANGED <<tree, made, faults, raced, gone, plain>>

FileNext == \E w \in Workers :
    \/ Preview(w) \/ Apply(w) \/ CheckRow(w) \/ Rename(w) \/ Answer(w)
    \/ subtitles_upload(w) \/ ChooseName(w) \/ Write(w) \/ Uploaded(w)
FileSpec == FileInit /\ [][FileNext]_fileVars

-----------------------------------------------------------------------------
(* Properties *)

\* A tree is a tree: what is not at the root is in a directory.
FileTypeOK ==
    /\ \A p \in DOMAIN tree : IsDir(Parent(p))
    /\ \A w \in Workers : frame[w].pc \in {"idle", "shown", "rows", "rename", "name", "write"}
    /\ made \in 0..MaxRequests /\ faults \in 0..MaxFaults

(* No file is lost: what was there, and what is owed for an upload that was  *)
(* answered with ok, is in the tree, however many files of a plan are        *)
(* cleaned or aligned to one name, and whatever names an archive holds twice *)
(* in different folders.  Only a request that changes the tree between a     *)
(* check and the call after it can break this (clean_names.py:229-234,       *)
(* subtitle_uploads.py:105-106).                                             *)
NothingLost == ~raced => data \subseteq {tree[p] : p \in DOMAIN tree}

(* A plan that no other request has interfered with finds every source,      *)
(* though its rows rename directories and what is in them (the sort at       *)
(* clean_names.py:225 takes what is inside before what it is in).            *)
NoRowGone == ~gone

(* A subtitle never loses the languages in its name, through any number of   *)
(* cleanings, uploads and alignments, as long as names are Plain: nothing    *)
(* follows the episode of a subtitle but at most three languages.            *)
LanguageKept ==
    plain =>
      \A p \in DOMAIN tree : tree[p] \in DOMAIN Speaks =>
        \A l \in Speaks[tree[p]] : Has(Base(p).words, {l})
=============================================================================
