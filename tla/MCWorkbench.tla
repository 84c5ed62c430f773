---------------------------- MODULE MCWorkbench -----------------------------
(***************************************************************************)
(* The services of Workbench with their inputs, and beside them the        *)
(* readers of what others write: a window pages through a session, a       *)
(* review is made of a working tree, the phones have the text as it is     *)
(* said, the public form of events and messages and their history, and     *)
(* the activity of a session keeps a copy of an event.  A behaviour is     *)
(* about one service or one reader.                                        *)
(***************************************************************************)
EXTENDS Workbench, Integers, TLC

CONSTANTS
    \* Transcript
    PageSizes, Scripts,
    \* GitReview
    Paths, Tasks, Worlds, MaxWrites,
    \* PublicStream
    Phones, Sessions, Scenarios, MaxDelta, MaxJoins, KeyLength, MaxSessions, EmitTarget,
    Holdback, Chunk, MaxFrames, MaxPending, MaxLive,
    \* PublicView
    Tools, MaxEvents, MaxText, MaxContent, MaxBlocks, MaxSource, LiveBudget,
    \* PhoneHistory
    Histories, Sizes, Window, FrameBudget, PageSize, MaxPage, MaxRows, MaxConnects,
    \* Sanitizer
    Inputs, MaxDepth, MaxFields, MaxItems, MaxString, MaxParams, MaxId, MetaSize

VARIABLES
    script, written, pageSize, cursor, pages, first, reading,
    log, task, registered, failures,
    scenario, said, pending, phone, joins, told, since, disturbed, clipped, torn,
    stage, turn, blocks, open, count, viewSent, bubble, page,
    rows, conn, queue, asked, held, paging, crossed, connects,
    method, params, copyStage, event

Readers == {"Transcript", "GitReview", "PublicStream", "PublicView", "PhoneHistory", "Sanitizer"}

Transcript == INSTANCE Transcript
GitReview == INSTANCE GitReview
PublicStream == INSTANCE PublicStream
PublicView == INSTANCE PublicView WITH sent <- viewSent
PhoneHistory == INSTANCE PhoneHistory
Sanitizer == INSTANCE Sanitizer WITH stage <- copyStage

ReaderRests(p) ==
    CASE p = "Transcript" -> script = 0 /\ written = 0 /\ pageSize = 0 /\ cursor = 0 /\
           pages = 0 /\ first = 0 /\ reading = 0
      [] p = "GitReview" -> log = 0 /\ task = 0 /\ registered = 0 /\ failures = 0
      [] p = "PublicStream" -> scenario = 0 /\ said = 0 /\ pending = 0 /\ phone = 0 /\
           joins = 0 /\ told = 0 /\ since = 0 /\ disturbed = 0 /\ clipped = 0 /\ torn = 0
      [] p = "PublicView" -> stage = 0 /\ turn = 0 /\ blocks = 0 /\ open = 0 /\
           count = 0 /\ viewSent = 0 /\ bubble = 0 /\ page = 0
      [] p = "PhoneHistory" -> rows = 0 /\ conn = 0 /\ queue = 0 /\ asked = 0 /\
           held = 0 /\ paging = 0 /\ crossed = 0 /\ connects = 0
      [] p = "Sanitizer" -> method = 0 /\ params = 0 /\ copyStage = 0 /\ event = 0

ReaderStays(p) ==
    CASE p = "Transcript" -> UNCHANGED <<script, written, pageSize, cursor, pages,
           first, reading>>
      [] p = "GitReview" -> UNCHANGED <<log, task, registered, failures>>
      [] p = "PublicStream" -> UNCHANGED <<scenario, said, pending, phone, joins, told,
           since, disturbed, clipped, torn>>
      [] p = "PublicView" -> UNCHANGED <<stage, turn, blocks, open, count, viewSent,
           bubble, page>>
      [] p = "PhoneHistory" -> UNCHANGED <<rows, conn, queue, asked, held, paging,
           crossed, connects>>
      [] p = "Sanitizer" -> UNCHANGED <<method, params, copyStage, event>>

ReadersRest == \A p \in Readers \ {part} : ReaderRests(p)
ReadersStay == \A p \in Readers \ {part} : ReaderStays(p)

allVars == <<vars, Transcript!vars, GitReview!vars, PublicStream!vars, PublicView!vars,
             PhoneHistory!vars, Sanitizer!vars>>

AllInit ==
    \/ Init /\ ReadersRest
    \/ /\ \A p \in Parts : AtRest(p)
       /\ part \in Readers /\ ReadersRest
       /\ \/ part = "Transcript" /\ Transcript!Init
          \/ part = "GitReview" /\ GitReview!Init
          \/ part = "PublicStream" /\ PublicStream!Init
          \/ part = "PublicView" /\ PublicView!Init
          \/ part = "PhoneHistory" /\ PhoneHistory!Init
          \/ part = "Sanitizer" /\ Sanitizer!Init

ServicesStay == UNCHANGED part /\ \A p \in Parts : Untouched(p)
TranscriptStep == part = "Transcript" /\ Transcript!Next /\ ReadersStay /\ ServicesStay
GitReviewStep == part = "GitReview" /\ GitReview!Next /\ ReadersStay /\ ServicesStay
PublicStreamStep == part = "PublicStream" /\ PublicStream!Next /\ ReadersStay /\ ServicesStay
PublicViewStep == part = "PublicView" /\ PublicView!Next /\ ReadersStay /\ ServicesStay
PhoneHistoryStep == part = "PhoneHistory" /\ PhoneHistory!Next /\ ReadersStay /\ ServicesStay
SanitizerStep == part = "Sanitizer" /\ Sanitizer!Next /\ ReadersStay /\ ServicesStay

AllNext ==
    \/ Next /\ ReadersStay
    \/ TranscriptStep \/ GitReviewStep
    \/ PublicStreamStep \/ PublicViewStep \/ PhoneHistoryStep \/ SanitizerStep

AllSpec == AllInit /\ [][AllNext]_allVars

-----------------------------------------------------------------------------
\* Transcript: what may follow in a session: an exchange older than turns, one that
\* was cut off, a turn of Codex, a turn of several rounds, one that failed before it
\* wrote anything, one of which only the user's row is written.
Row(t, role, text, use, result) ==
    [kind |-> "message", turn |-> t, role |-> role, text |-> text, use |-> use, result |-> result]
Receipt(t) == [kind |-> "receipt", turn |-> t]
Exchange(t) == <<Row(0, "user", TRUE, 0, 0), Row(0, "assistant", TRUE, t, 0),
                 Row(0, "user", FALSE, 0, t), Row(0, "assistant", TRUE, 0, 0)>>
Rounds(t) == <<Row(t, "user", TRUE, 0, 0), Row(t, "assistant", TRUE, t, 0),
               Row(t, "user", FALSE, 0, t), Row(t, "assistant", TRUE, 0, 0), Receipt(t)>>
Unit(kind, t) ==
    CASE kind = "exchange" -> Exchange(t)
      [] kind = "cut" -> SubSeq(Exchange(t), 1, 2)
      [] kind = "turn" -> <<Row(t, "user", TRUE, 0, 0), Row(t, "assistant", TRUE, t, t)>>
      [] kind = "rounds" -> Rounds(t)
      [] kind = "failed" -> <<Receipt(t)>>
      [] kind = "begun" -> <<Row(t, "user", TRUE, 0, 0), Receipt(t)>>
Kinds == {"exchange", "cut", "turn", "rounds", "failed", "begun"}

SomeScripts ==
    {Unit(k[1], p[1]) \o Unit(k[2], p[2]) \o Unit(k[3], p[3]) : k \in [1 .. 3 -> Kinds], p \in {<<1, 2, 3>>, <<3, 2, 1>>}}

\* Migrations: the columns each build left, and what it kept in them.
Eras ==
    LET all == {"model", "account", "thread", "receiptAccount", "confirmed", "turnId", "terminal", "anchor"}
    IN  {{}, {"model"}, {"model", "account", "confirmed"}, {"model", "account", "confirmed", "turnId"},
         all \ {"terminal", "anchor", "thread"}, all \ {"anchor", "thread"}, all \ {"thread"}, all}

\* Turn 1 wrote rows, turn 2 failed before it wrote any.
ReceiptsOf(era, s1, s2, status) ==
    LET state(s) == IF "terminal" \in era THEN s ELSE "untold"
        anchor(k) == IF "anchor" \in era THEN k ELSE -1
    IN  IF {"turnId", "receiptAccount"} \subseteq era
        THEN <<[state |-> state(s1), status |-> status, anchor |-> anchor(1), started |-> 2],
               [state |-> state(s2), status |-> "interrupted", anchor |-> anchor(3), started |-> 4]>>
        ELSE <<>>

Database(era, model, owner, trusted, n, s1, s2, status) ==
    LET of(t) == IF "turnId" \in era THEN t ELSE 0
        row(t, time) == [turn |-> of(t), time |-> time]
    IN  [tables |-> "receiptAccount" \in era, columns |-> era, confirmed |-> trusted,
         session |-> [model |-> IF "model" \in era THEN model ELSE "untold",
                      account |-> IF "account" \in era THEN owner ELSE "untold"],
         messages |-> SubSeq(<<row(0, 1), row(1, 2), row(1, 3), row(0, 5)>>, 1, n),
         receipts |-> ReceiptsOf(era, s1, s2, status)]

States == {"pending", "known", "terminal"}
SomeDatabases ==
    {Database(era, m, "retired", trusted, 4, "terminal", "pending", "completed") :
       era \in Eras, m \in {"null", "claude", "gpt", "other"}, trusted \in BOOLEAN}
        \cup {Database(era, "gpt", "null", TRUE, n, s1, s2, status) :
                era \in Eras, n \in {3, 4}, s1 \in States, s2 \in States,
                status \in {"interrupted", "completed"}}

\* GitReview: no commit yet; all clean; one file staged and one not tracked; three
\* commits; a file too large to hash.
Repository(history, base, index, c, d) ==
    LET now(x) == [content |-> x, stamp |-> 0]
    IN  [history |-> history, base |-> base, index |-> index, work |-> <<now(c), now(d)>>]
None == "absent"
Fresh == Repository(<<>>, 0, <<"a", None>>, "b", None)
Clean == Repository(<<<<"a", None>>>>, 1, <<"a", None>>, "a", None)
Dirty == Repository(<<<<"a", None>>>>, 1, <<"b", None>>, "b", "a")
Grown == Repository(<<<<"a", None>>, <<"link", None>>, <<"b", None>>>>, 1, <<"b", None>>, "b", None)
Large == Repository(<<<<"a", None>>>>, 1, <<"a", None>>, "b", "big")

Review(scope) == [kind |-> "review", scope |-> scope]
Capture(kind) == [kind |-> kind, scope |-> "workingTree"]
NoTask == [kind |-> "idle", scope |-> "none"]
World(t, u, repo, fails) == [tasks |-> <<t, u>>, repo |-> repo, failures |-> fails]

SomeWorlds ==
    {World(Review(s), NoTask, r, FALSE) : s \in {"workingTree", "unstaged", "staged"}, r \in {Fresh, Dirty}}
        \cup {World(Review(s), NoTask, r, FALSE) : s \in {"branch", "commit"}, r \in {Fresh, Grown}}
        \cup {World(Capture(k), NoTask, r, FALSE) : k \in {"workspace", "paths"}, r \in {Clean, Dirty, Large}}
        \cup {World(Capture("paths"), Capture("paths"), Clean, FALSE)}
        \cup {World(Review("unstaged"), NoTask, Large, TRUE), World(Capture("workspace"), NoTask, Dirty, TRUE)}

\* Attachments: two files of one name, and one that has the name a label would give.
OnDisk(name, kind) == [name |-> name, kind |-> kind, size |-> 1, sound |-> TRUE, version |-> 0]
Disk == ("a" :> OnDisk(<<"x">>, "text")) @@ ("b" :> OnDisk(<<"x">>, "image"))
          @@ ("c" :> OnDisk(<<"x", 1>>, "image")) @@ ("d" :> OnDisk(<<"y">>, "folder"))
Ask(kind, paths, given, text) == [kind |-> kind, paths |-> paths, names |-> given, hasText |-> text]
Scene(u, v) == [wants |-> ("u" :> u) @@ ("v" :> v), disk |-> Disk]

SomeScenes ==
    {Scene(Ask("run", p, n, t), Ask("none", <<>>, <<>>, FALSE)) :
       p \in {<<"a", "b", "a">>, <<"c", "a", "b">>, <<"b", "c">>, <<"a", "missing">>, <<"d">>, <<>>, <<"a", "b", "c", "d">>},
       n \in {<<>>, <<<<"x", 1>>, <<"x", 2>>>>, <<<<"x">>, <<"x", 1>>>>, <<<<"x">>, <<"x">>>>}, t \in BOOLEAN}
        \cup {Scene(Ask("run", <<"b", "c">>, <<>>, FALSE), Ask("run", <<"a", "b">>, <<>>, TRUE)),
              Scene(Ask("run", <<"b">>, <<>>, FALSE), Ask("validate", <<"b", "d">>, <<>>, TRUE))}

\* Marketplace: an entry that says too little, one that is blocked, one that may not
\* be shown, two of one name.
Offered(path, policy, telling) ==
    [market |-> "m", plugin |-> "p", path |-> path, native |-> "n", policy |-> policy,
     available |-> TRUE, told |-> telling, clean |-> TRUE]
SomeCatalogs ==
    <<<<Offered("none", "available", TRUE), [Offered("dir", "available", TRUE) EXCEPT !.plugin = "q", !.clean = FALSE]>>,
      <<Offered("a", "blocked", TRUE), Offered("b", "available", TRUE)>>, <<Offered("dir", "available", FALSE)>>>>

Want(kind, confirmed) ==
    [kind |-> kind, market |-> "m", plugin |-> IF kind = "uninstall" THEN "n" ELSE "p", confirmed |-> confirmed]
SomeWants ==
    {("x" :> Want("install", TRUE)) @@ ("y" :> Want("uninstall", TRUE)) @@ ("z" :> Want("list", TRUE)),
     ("x" :> Want("install", FALSE)) @@ ("y" :> Want("uninstall", FALSE)) @@ ("z" :> Want("read", TRUE))}

\* Projection: a text whose final words differ, counts that come twice; a tool after
\* the last text; tools side by side of which one never ends; a turn cut off in a
\* text; an item that completes unannounced, a final text that is empty.
SomeConversations ==
    LET happens(kind, i, words) == [kind |-> kind, item |-> i, text |-> words]
        delta(i, piece) == happens("delta", i, <<piece>>)
        tokens(n) == happens("usage", n, <<>>)
        text(i, words) == happens("text", i, words)
        starts(i) == happens("started", i, <<>>)
        ends(i) == happens("tool", i, <<>>)
    IN  {<<<<delta(1, 1), tokens(1), text(1, <<3>>), tokens(1)>>, <<text(1, <<1>>), starts(2), ends(2)>>>>,
         <<<<starts(2), starts(3), ends(3), delta(1, 1)>>, <<delta(1, 1), starts(2), delta(1, 2)>>>>,
         <<<<ends(2), delta(1, 1), text(1, <<>>), tokens(2)>>, <<tokens(1), delta(1, 1), tokens(3)>>>>}

Patch(model, mode) == [model |-> model, mode |-> mode]
SomeRequests ==
    {("x" :> p) @@ ("y" :> q) : p \in {Patch("claude", "keep"), Patch("keep", "bypass")},
                                q \in {Patch("sol", "bad"), Patch("keep", "plan")}}
SomeEdits == {[model |-> "bad", mode |-> "bad"], Patch("sol", "bypass")}
SomeEntries == {[x |-> "device", y |-> "iroh"], [x |-> "device", y |-> "device"], [x |-> "iroh", y |-> "iroh"]}
SomeWishes == {[x |-> "login", y |-> wish] : wish \in {"login", "key", "logout"}}


\* PublicStream: a key, a label and a home directory near every place where the text may
\* be cut, characters outside ASCII that end a credential and that do not; a text that
\* cannot be cut, and one of too many pieces; two sessions; two phones.
Talk(r, s, phones) == [talk |-> ("r" :> r) @@ ("s" :> s), phones |-> phones]
SomeTalks ==
    {Talk(<<"a", " ", "h", " ", "a", " ", "a", "a", "a", " ", "T">>, <<>>, {"p"}),
     Talk(<<"a", "a", "a", " ", "h", " ", " ", "a", "a", "T">>, <<>>, {"p"}),
     Talk(<<"a", ",", "a", ",", "a", ",", "a", ",", "T", "a">>, <<>>, {"p"}),
     Talk(<<"a", " ", "a", " ", "a", " ", "a", " ", "a", " ", "T">>, <<>>, {"p"}),
     Talk(<<"a", " ", "T", "a">>, <<"a", "a", "T">>, {"p"}),
     Talk(<<"a", "T", "a", "a", "T">>, <<>>, {"p", "q"}),
     Talk(<<"a", "n", "a", " ", "h", "n", " ", "a", "a", "T">>, <<>>, {"p"}),
     Talk(<<"h", "a", "e", "n", "a", "a", "e", "a", "T">>, <<>>, {"p"}),
     Talk(<<"h", "a", "n", "a", "a", "a", "T">>, <<>>, {"p"}),
     Talk(<<"a", " ", "p", "a", " ", "a", "/", "T", "a">>, <<>>, {"p"}),
     Talk(<<"p", "h", "a", ",", "/", "h", "n", "a", "T">>, <<>>, {"p"})}

SomeTools == {[n |-> 3, as |-> "plain"], [n |-> 4, as |-> "private"]}
SomeHistories == {<<>>, <<2, 1, 2, 1, 1>>, <<1, 1, 2, 2, 1, 1>>}

\* Sanitizer: what the n-th field of an item may be, and the items.
Node(k, tag, size, entries) == [k |-> k, tag |-> tag, size |-> size, of |-> entries]
Leaf(tag, size) == Node("leaf", tag, size, <<>>)
Map(fields) == Node("map", 0, 0, fields)
List(values) == Node("list", 0, 0, values)
Field(key, value) == [key |-> key, value |-> value]
Plain(n) == Leaf(10 * n + 1, 1)
Long(n) == Leaf(10 * n + 2, 5)
Nested(n, key) == Map(<<Field(key, Leaf(10 * n + 3, 1)), Field("text", Leaf(10 * n + 4, 5))>>)
Fields(n) ==
    {Field("kind", Leaf(99, 1)), Field("text", Plain(n)), Field("text", Long(n)),
     Field("secret", Nested(n, "id")), Field("reasoning", Plain(n)), Field("marked", Leaf(0, 1)),
     Field("summary", List(<<Field("", Plain(n)), Field("", Nested(n, "secret")), Field("", Long(n))>>)),
     Field("text", Nested(n, "marked")), Field("text", Map(<<Field("text", Nested(n, "id"))>>))}
Items == {Map(<<Field("id", Plain(1)), e, f, g>>) : e \in Fields(2), f \in Fields(3), g \in Fields(4)}
            \cup {Map(<<e>>) : e \in Fields(2)}
            \cup {Plain(1), List(<<Field("", Nested(1, "reasoning"))>>)}
SomeInputs ==
    LET thread == Field("thread", Leaf(1, 1))
    IN  {Map(<<Field("item", item), thread>>) : item \in Items} \cup {Map(<<thread, Field("item", item)>>) : item \in Items}
            \cup Items

-----------------------------------------------------------------------------
\* A reader that pages back sees what one read of the whole session would show,
\* whatever is written meanwhile (Db::ui_messages_page).
PagesAreTheView == part = "Transcript" => Transcript!PagesAreTheView

\* A patch, and the image a capture calls complete, are of one moment of a
\* repository that others write to (get_git_review_file, capture_turn_workspace).
ReviewIsOfOneMoment == part = "GitReview" => GitReview!PatchIsOfSnapshot /\ GitReview!CapturesAreSound

\* A phone reads what was said, in order, redacted as one text; its bubbles and its
\* pages agree; what it shows of the history has no hole; and nothing private passes
\* into the activity of a session (PhoneEventProjector, project_message,
\* message_page_frame, sanitize_activity_params).
OnlyTheSessionGoesOut ==
    /\ part = "PublicStream" => PublicStream!StreamIsTheTalk
    /\ part = "PublicView" => PublicView!ViewsAgree
    /\ part = "PhoneHistory" => PhoneHistory!HistoryHasNoHole
    /\ part = "Sanitizer" => Sanitizer!ActivityIsSafe
=============================================================================
