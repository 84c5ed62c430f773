-------------------------- MODULE WorkbenchProofs --------------------------
(***************************************************************************)
(* What the parts of the workbench promise, for every choice of the inputs *)
(* that the assumptions of Workbench allow: any number of callers, of      *)
(* calls under way and of attachments, files of any size, plugin lists of  *)
(* any length, databases of any content.  A part keeps to itself in a      *)
(* behaviour (PartStays), so each has an invariant of its own, and the     *)
(* theorem at the end of its section carries that to the whole.  Induction *)
(* over a number goes through a set of numbers, see SetInduction of        *)
(* FiniteSums.                                                             *)
(***************************************************************************)
EXTENDS Workbench, FiniteSums, TLAPS

-----------------------------------------------------------------------------
(* A behaviour is of one part *)

\* No step changes the part a behaviour is of.
LEMMA PartStays ==
    ASSUME [Next]_vars
    PROVE  part' = part
BY DEF Next, vars, MigrationsStep, AttachmentsStep,
    MarketplaceStep, ProjectionStep, SettingsStep, SecretsStep, TelemetryStep, AccountStep

\* A step of a part is one of its own or leaves it alone; likewise below.
LEMMA AttachmentsMoves ==
    ASSUME [Next]_vars, part = "Attachments"
    PROVE  Attachments!Next \/ UNCHANGED Attachments!vars
BY DEF Next, vars, MigrationsStep, AttachmentsStep,
    MarketplaceStep, ProjectionStep, SettingsStep, SecretsStep, TelemetryStep, AccountStep

LEMMA MarketplaceMoves ==
    ASSUME [Next]_vars, part = "Marketplace"
    PROVE  Marketplace!Next \/ UNCHANGED Marketplace!vars
BY DEF Next, vars, MigrationsStep, AttachmentsStep,
    MarketplaceStep, ProjectionStep, SettingsStep, SecretsStep, TelemetryStep, AccountStep

LEMMA MigrationsMoves ==
    ASSUME [Next]_vars, part = "Migrations"
    PROVE  Migrations!Next \/ UNCHANGED Migrations!vars
BY DEF Next, vars, MigrationsStep, AttachmentsStep,
    MarketplaceStep, ProjectionStep, SettingsStep, SecretsStep, TelemetryStep, AccountStep

LEMMA ProjectionMoves ==
    ASSUME [Next]_vars, part = "Projection"
    PROVE  Projection!Next \/ UNCHANGED Projection!vars
BY DEF Next, vars, MigrationsStep, AttachmentsStep,
    MarketplaceStep, ProjectionStep, SettingsStep, SecretsStep, TelemetryStep, AccountStep

LEMMA SettingsMoves ==
    ASSUME [Next]_vars, part = "Settings"
    PROVE  Settings!Next \/ UNCHANGED Settings!vars
BY DEF Next, vars, MigrationsStep, AttachmentsStep,
    MarketplaceStep, ProjectionStep, SettingsStep, SecretsStep, TelemetryStep, AccountStep

LEMMA SecretsMoves ==
    ASSUME [Next]_vars, part = "Secrets"
    PROVE  Secrets!Next \/ UNCHANGED Secrets!vars
BY DEF Next, vars, MigrationsStep, AttachmentsStep,
    MarketplaceStep, ProjectionStep, SettingsStep, SecretsStep, TelemetryStep, AccountStep

LEMMA TelemetryMoves ==
    ASSUME [Next]_vars, part = "Telemetry"
    PROVE  Telemetry!Next \/ UNCHANGED Telemetry!vars
BY DEF Next, vars, MigrationsStep, AttachmentsStep,
    MarketplaceStep, ProjectionStep, SettingsStep, SecretsStep, TelemetryStep, AccountStep

LEMMA AccountMoves ==
    ASSUME [Next]_vars, part = "Account"
    PROVE  Account!Next \/ UNCHANGED Account!vars
BY DEF Next, vars, MigrationsStep, AttachmentsStep,
    MarketplaceStep, ProjectionStep, SettingsStep, SecretsStep, TelemetryStep, AccountStep


-----------------------------------------------------------------------------
(* Opening the database *)

Statements == {"tables", "model", "account", "thread", "receiptAccount", "retireClaude", "oneAccount",
               "confirmed", "turnId", "terminal", "anchor", "placeReceipts", "recover"}
Retired == {"null", "empty", "claude"}
Null == Migrations!Null

\* What a receipt of b comes to say, once the start is through.
Expected(r) == IF r.state \in {"untold", "terminal"} \/ Migrations!OutcomeIsKnown(r) THEN r.status ELSE "interrupted"

\* d is b after some statements of some starts: what they changed is what the start
\* that gets through may leave.
SessionMeant(b, d) ==
    /\ b.session.model = "other" =>
         /\ d.session.model = "other"
         /\ d.session.account = IF "account" \in b.columns \/ "account" \notin d.columns
                                THEN b.session.account ELSE "null"
    /\ b.session.model \in {"gpt", "terra"} => d.session.model = b.session.model
    /\ b.session.model \in Retired =>
         \/ d.session.model = b.session.model
         \/ d.session.model = "terra" /\ d.session.account = "primary" /\ "account" \in d.columns
TrustMeant(b, d) ==
    IF "confirmed" \in d.columns THEN d.confirmed <=> "confirmed" \in b.columns /\ b.confirmed
    ELSE d.confirmed <=> b.confirmed
OutcomeMeant(r, o, columns) ==
    \/ r.state = o.state /\ r.status = o.status /\ (o.state = "untold" => "terminal" \notin columns)
    \/ r.state = "terminal" /\ "terminal" \in columns /\ r.status = Expected(o)
ReceiptMeant(t, b, d) ==
    LET o == b.receipts[t]
        r == d.receipts[t]
    IN  /\ r.started = o.started
        /\ o.anchor # Null => r.anchor = o.anchor
        /\ o.anchor = Null => r.anchor \in {Null, Migrations!PlaceOf(t, b)}
        /\ OutcomeMeant(r, o, d.columns)
Meant(b, d) ==
    /\ b.columns \subseteq d.columns /\ d.messages = b.messages /\ DOMAIN d.receipts = DOMAIN b.receipts
    /\ SessionMeant(b, d) /\ TrustMeant(b, d)
    /\ \A t \in DOMAIN b.receipts : ReceiptMeant(t, b, d)

\* Which statements of this start are behind statement s.
Behind(s) ==
    CASE s = "tables" -> {}
      [] s = "model" -> {"tables"}
      [] s = "account" -> {"tables", "model"}
      [] s = "thread" -> {"tables", "model", "account"}
      [] s = "receiptAccount" -> {"tables", "model", "account", "thread"}
      [] s = "retireClaude" -> {"tables", "model", "account", "thread", "receiptAccount"}
      [] s = "oneAccount" -> {"tables", "model", "account", "thread", "receiptAccount", "retireClaude"}
      [] s = "confirmed" -> {"tables", "model", "account", "thread", "receiptAccount", "retireClaude", "oneAccount"}
      [] s = "turnId" -> Statements \ {"turnId", "terminal", "anchor", "placeReceipts", "recover"}
      [] s = "terminal" -> Statements \ {"terminal", "anchor", "placeReceipts", "recover"}
      [] s = "anchor" -> Statements \ {"anchor", "placeReceipts", "recover"}
      [] s = "placeReceipts" -> Statements \ {"placeReceipts", "recover"}
      [] s = "recover" -> Statements \ {"recover"}

\* What statement s has made sure of in d, and no later one undoes.
Holds(s, b, d) ==
    CASE s = "tables" -> d.tables
      [] s = "retireClaude" -> d.session.model \notin Retired /\ {"model", "account"} \subseteq d.columns
      [] s = "oneAccount" -> /\ d.session.model \in {"gpt", "terra"} => d.session.account = "primary"
                             /\ {"model", "account"} \subseteq d.columns
      [] s = "placeReceipts" -> \A t \in DOMAIN b.receipts : b.receipts[t].anchor = Null =>
                                  d.receipts[t].anchor = Migrations!PlaceOf(t, b)
      [] OTHER -> s \in d.columns

MigrationsInv ==
    /\ at \in Statements \cup {"closed", "open"}
    /\ IsDatabase(db) /\ IsDatabase(before)
    /\ at # "open" => Meant(before, db)
    /\ at \in Statements => \A s \in Behind(at) : Holds(s, before, db)

\* The statements go in their order.
LEMMA StatementsGoOn ==
    ASSUME NEW s \in Statements \ {"recover"}
    PROVE  /\ Migrations!Next1(s) \in Statements
           /\ Behind(Migrations!Next1(s)) \subseteq Behind(s) \cup {s}
<1> DEFINE Q == Migrations!Statements
           k == CHOOSE i \in DOMAIN Q : Q[i] = s
<1>1. /\ DOMAIN Q = 1 .. 13 /\ Len(Q) = 13
      /\ Q[1] = "tables" /\ Q[2] = "model" /\ Q[3] = "account" /\ Q[4] = "thread"
      /\ Q[5] = "receiptAccount" /\ Q[6] = "retireClaude" /\ Q[7] = "oneAccount" /\ Q[8] = "confirmed"
      /\ Q[9] = "turnId" /\ Q[10] = "terminal" /\ Q[11] = "anchor" /\ Q[12] = "placeReceipts"
      /\ Q[13] = "recover"
    BY DEF Migrations!Statements
<1> HIDE DEF Q
<1>2. \E i \in DOMAIN Q : Q[i] = s
    BY <1>1 DEF Statements
<1>3. k \in 1 .. 13 /\ Q[k] = s
    BY <1>1, <1>2
<1>4. Migrations!Next1(s) = IF k = 13 THEN "open" ELSE Q[k + 1]
    BY <1>1 DEF Migrations!Next1, Q
<1> HIDE DEF k
<1>5. k # 13
    BY <1>1, <1>3
<1>6. Migrations!Next1(s) = Q[k + 1]
    BY <1>4, <1>5
<1>7. \/ s = "tables" /\ Migrations!Next1(s) = "model"
      \/ s = "model" /\ Migrations!Next1(s) = "account"
      \/ s = "account" /\ Migrations!Next1(s) = "thread"
      \/ s = "thread" /\ Migrations!Next1(s) = "receiptAccount"
      \/ s = "receiptAccount" /\ Migrations!Next1(s) = "retireClaude"
      \/ s = "retireClaude" /\ Migrations!Next1(s) = "oneAccount"
      \/ s = "oneAccount" /\ Migrations!Next1(s) = "confirmed"
      \/ s = "confirmed" /\ Migrations!Next1(s) = "turnId"
      \/ s = "turnId" /\ Migrations!Next1(s) = "terminal"
      \/ s = "terminal" /\ Migrations!Next1(s) = "anchor"
      \/ s = "anchor" /\ Migrations!Next1(s) = "placeReceipts"
      \/ s = "placeReceipts" /\ Migrations!Next1(s) = "recover"
    <2>1. \/ k = 1 \/ k = 2 \/ k = 3 \/ k = 4 \/ k = 5 \/ k = 6 \/ k = 7 \/ k = 8 \/ k = 9
          \/ k = 10 \/ k = 11 \/ k = 12
        BY <1>3, <1>5
    <2> QED
        BY <2>1, <1>1, <1>3, <1>6
<1> QED
    BY <1>7 DEF Behind, Statements

\* What a column that is added does, field by field.
LEMMA AddIs ==
    ASSUME NEW d, IsDatabase(d), NEW column \in Migrations!Columns
    PROVE  LET e == Migrations!Add(column, d)
               new == column \notin d.columns
           IN  /\ e = [tables |-> e.tables, columns |-> e.columns, confirmed |-> e.confirmed,
                       session |-> e.session, messages |-> e.messages, receipts |-> e.receipts]
               /\ e.session = [model |-> e.session.model, account |-> e.session.account]
               /\ e.tables = d.tables /\ e.columns = d.columns \cup {column} /\ e.messages = d.messages
               /\ e.confirmed = IF new /\ column = "confirmed" THEN FALSE ELSE d.confirmed
               /\ e.session.model = IF new /\ column = "model" THEN "null" ELSE d.session.model
               /\ e.session.account = IF new /\ column = "account" THEN "null" ELSE d.session.account
               /\ e.receipts = IF new /\ column = "terminal" THEN Migrations!AddTerminal(d) ELSE d.receipts
<1>1. CASE column \in d.columns
    BY <1>1 DEF Migrations!Add, IsDatabase
<1>2. CASE column \notin d.columns
    <2>1. CASE column = "model"
        BY <1>2, <2>1 DEF Migrations!Add, IsDatabase
    <2>2. CASE column = "account"
        BY <1>2, <2>2 DEF Migrations!Add, IsDatabase
    <2>3. CASE column = "confirmed"
        BY <1>2, <2>3 DEF Migrations!Add, IsDatabase
    <2>4. CASE column = "terminal"
        BY <1>2, <2>4 DEF Migrations!Add, IsDatabase
    <2>5. CASE column \notin {"model", "account", "confirmed", "terminal"}
        BY <1>2, <2>5 DEF Migrations!Add, IsDatabase
    <2> QED
        BY <2>1, <2>2, <2>3, <2>4, <2>5
<1> QED
    BY <1>1, <1>2

\* A database that lost nothing but a column of its receipts.
LEMMA PlacesAgree ==
    ASSUME NEW b, NEW d, NEW t, d.messages = b.messages, d.receipts[t].started = b.receipts[t].started
    PROVE  Migrations!PlaceOf(t, d) = Migrations!PlaceOf(t, b) /\ Migrations!RowsOf(t, d) = Migrations!RowsOf(t, b)
BY DEF Migrations!PlaceOf, Migrations!RowsOf

LEMMA FirstRow ==
    ASSUME NEW T, T \subseteq Nat, T # {}
    PROVE  Migrations!Min(T) \in T /\ \A n \in T : Migrations!Min(T) <= n
BY LeastNumber DEF Migrations!Min

\* The place of a receipt: at the first of its rows, or between what is older and what is not.
LEMMA PlaceIs ==
    ASSUME NEW d, IsDatabase(d), NEW t \in DOMAIN d.receipts
    PROVE  LET place == Migrations!PlaceOf(t, d)
               rows == Migrations!RowsOf(t, d)
           IN  /\ place \in Nat
               /\ rows # {} => place + 1 \in rows /\ \A i \in rows : place < i
               /\ rows = {} => \A i \in DOMAIN d.messages :
                                 i <= place <=> d.messages[i].time < d.receipts[t].started
<1> DEFINE rows == Migrations!RowsOf(t, d)
           started == d.receipts[t].started
           later == {i \in DOMAIN d.messages : d.messages[i].time >= started}
           place == Migrations!PlaceOf(t, d)
<1>1. /\ DOMAIN d.messages = 1 .. Len(d.messages) /\ Len(d.messages) \in Nat
      /\ started \in Nat
      /\ \A i \in DOMAIN d.messages :
           d.messages[i].time \in Nat /\ \A j \in 1 .. i : d.messages[j].time <= d.messages[i].time
    BY DEF IsDatabase, IsList, IsReceipt
<1>2. rows \subseteq DOMAIN d.messages /\ later \subseteq DOMAIN d.messages
    BY DEF Migrations!RowsOf
<1>3. place = IF rows # {} THEN Migrations!Min(rows) - 1
              ELSE IF later # {} THEN Migrations!Min(later) - 1 ELSE Len(d.messages)
    BY DEF Migrations!PlaceOf
<1> HIDE DEF rows, place
<1>4. CASE rows # {}
    <2>1. rows \subseteq Nat
        BY <1>1, <1>2
    <2>2. Migrations!Min(rows) \in rows /\ \A n \in rows : Migrations!Min(rows) <= n
        BY <1>4, <2>1, FirstRow
    <2> QED
        BY <1>1, <1>2, <1>3, <1>4, <2>2 DEF rows, place
<1>5. CASE rows = {} /\ later # {}
    <2> DEFINE early == Migrations!Min(later)
    <2>1. later \subseteq Nat
        BY <1>1, <1>2
    <2>2. early \in later /\ \A n \in later : early <= n
        <3> HIDE DEF later
        <3> QED
            BY <1>5, <2>1, FirstRow
    <2> HIDE DEF early
    <2>3. place = early - 1 /\ early \in 1 .. Len(d.messages) /\ d.messages[early].time >= started
        BY <1>1, <1>3, <1>5, <2>2 DEF early
    <2>4. ASSUME NEW i \in DOMAIN d.messages
          PROVE  i <= place <=> d.messages[i].time < started
        <3> DEFINE m == d.messages[i].time
                   n == d.messages[early].time
        <3>1. i \in 1 .. Len(d.messages) /\ d.messages[i].time \in Nat
            BY <1>1, <2>4
        <3>2. i < early => i \notin later
            BY <2>2, <2>3, <3>1
        <3>3. early <= i => d.messages[early].time <= d.messages[i].time
            BY <1>1, <2>3, <2>4, <3>1
        <3>4. d.messages[early].time \in Nat
            BY <1>1, <2>3
        <3>5. i \notin later <=> ~(m >= started)
            BY <2>4
        <3>6. m \in Nat /\ n \in Nat /\ i \in Nat /\ early \in Nat /\ n >= started
            <4>1. m \in Nat /\ i \in Nat
                BY <3>1
            <4>2. n \in Nat
                BY <3>4
            <4>3. n >= started
                BY <2>3
            <4>4. early \in Nat
                BY <2>3
            <4> QED
                BY <4>1, <4>2, <4>3, <4>4
        <3>10. started \in Nat
            BY <1>1
        <3> HIDE DEF later, m, n, started
        <3>7. i <= place <=> i < early
            BY <2>3, <3>6
        <3>8. i < early => m < started
            BY <3>2, <3>5, <3>6, <3>10
        <3>9. early <= i => ~(m < started)
            BY <3>3, <3>6, <3>10 DEF m, n
        <3> QED
            BY <3>6, <3>7, <3>8, <3>9, <3>10 DEF m
    <2> QED
        BY <1>5, <2>3, <2>4 DEF rows, place
<1>6. CASE rows = {} /\ later = {}
    <2>1. place = Len(d.messages)
        BY <1>3, <1>6
    <2>2. \A i \in DOMAIN d.messages : d.messages[i].time \in Nat /\ ~(d.messages[i].time >= started)
        BY <1>1, <1>6
    <2> QED
        BY <1>1, <1>6, <2>1, <2>2 DEF rows, place
<1> QED
    BY <1>4, <1>5, <1>6

\* A column that is added keeps what was meant, and what earlier statements made sure of.
LEMMA AddKeeps ==
    ASSUME NEW b, NEW d, IsDatabase(b), IsDatabase(d), Meant(b, d), NEW column \in Migrations!Columns
    PROVE  LET e == Migrations!Add(column, d)
           IN  /\ IsDatabase(e) /\ Meant(b, e) /\ Holds(column, b, e)
               /\ \A s \in Statements : Holds(s, b, d) => Holds(s, b, e)
<1> DEFINE e == Migrations!Add(column, d)
           new == column \notin d.columns
           T == DOMAIN d.receipts
           told == new /\ column = "terminal"
           IsColumn(t) ==
             /\ e.receipts[t] = [state |-> e.receipts[t].state, status |-> d.receipts[t].status,
                                 anchor |-> d.receipts[t].anchor, started |-> d.receipts[t].started]
             /\ told => e.receipts[t].state = "terminal"
             /\ ~told => e.receipts[t].state = d.receipts[t].state
<1>1. /\ e = [tables |-> e.tables, columns |-> e.columns, confirmed |-> e.confirmed,
              session |-> e.session, messages |-> e.messages, receipts |-> e.receipts]
      /\ e.session = [model |-> e.session.model, account |-> e.session.account]
      /\ e.tables = d.tables /\ e.columns = d.columns \cup {column} /\ e.messages = d.messages
      /\ e.confirmed = IF new /\ column = "confirmed" THEN FALSE ELSE d.confirmed
      /\ e.session.model = IF new /\ column = "model" THEN "null" ELSE d.session.model
      /\ e.session.account = IF new /\ column = "account" THEN "null" ELSE d.session.account
      /\ e.receipts = IF new /\ column = "terminal" THEN Migrations!AddTerminal(d) ELSE d.receipts
    BY AddIs
<1>2. column \in {"model", "account", "thread", "receiptAccount", "confirmed", "turnId", "terminal", "anchor"}
    BY DEF Migrations!Columns
<1> HIDE DEF e
\* The receipts
<1>3. /\ DOMAIN e.receipts = T /\ e.receipts = [t \in T |-> e.receipts[t]]
      /\ \A t \in T : IsColumn(t)
    <2>1. CASE told
        <3>1. e.receipts = [t \in T |-> [d.receipts[t] EXCEPT !.state = "terminal"]]
            BY <1>1, <2>1 DEF Migrations!AddTerminal
        <3>2. DOMAIN e.receipts = T /\ e.receipts = [t \in T |-> e.receipts[t]]
            BY <3>1
        <3>3. ASSUME NEW t \in T
              PROVE  IsColumn(t)
            <4>1. d.receipts[t] = [state |-> d.receipts[t].state, status |-> d.receipts[t].status,
                                   anchor |-> d.receipts[t].anchor, started |-> d.receipts[t].started]
                BY <3>3 DEF IsDatabase, IsReceipt
            <4>2. e.receipts[t] = [d.receipts[t] EXCEPT !.state = "terminal"]
                BY <3>1, <3>3
            <4> QED
                BY <2>1, <4>1, <4>2
        <3> HIDE DEF T, IsColumn
        <3> QED
            BY <3>2, <3>3
    <2>2. CASE ~told
        <3>1. e.receipts = d.receipts
            BY <1>1, <2>2
        <3> QED
            BY <2>2, <3>1 DEF IsDatabase, IsReceipt
    <2> QED
        BY <2>1, <2>2
<1> HIDE DEF IsColumn
<1>4. IsDatabase(e)
    <2>1. ASSUME NEW t \in T
          PROVE  IsReceipt(e.receipts[t], IF "terminal" \in e.columns THEN {"pending", "known", "terminal"}
                                          ELSE {"untold"})
        <3>1. IsReceipt(d.receipts[t], IF "terminal" \in d.columns THEN {"pending", "known", "terminal"}
                                       ELSE {"untold"})
            BY <2>1 DEF IsDatabase
        <3>2. IsColumn(t)
            BY <1>3, <2>1
        <3>3. "terminal" \in e.columns <=> "terminal" \in d.columns \/ column = "terminal"
            BY <1>1
        <3> QED
            BY <3>1, <3>2, <3>3, <1>1 DEF IsReceipt, IsColumn
    <2>2. e.confirmed \in BOOLEAN /\ e.tables \in BOOLEAN
        BY <1>1 DEF IsDatabase
    <2>3. "model" \notin e.columns => e.session.model = "untold"
        BY <1>1 DEF IsDatabase
    <2>4. ~e.tables => T = {}
        BY <1>1 DEF IsDatabase
    <2> QED
        BY <1>1, <1>3, <2>1, <2>2, <2>3, <2>4 DEF IsDatabase
<1>5. SessionMeant(b, e)
    <2>1. SessionMeant(b, d) /\ b.columns \subseteq d.columns
        BY DEF Meant
    <2>2. b.session.model # "untold" => "model" \in d.columns
        BY <2>1 DEF IsDatabase
    <2> QED
        BY <1>1, <2>1, <2>2 DEF SessionMeant, Retired
<1>6. TrustMeant(b, e)
    <2>1. TrustMeant(b, d) /\ b.columns \subseteq d.columns
        BY DEF Meant
    <2> QED
        BY <1>1, <2>1 DEF TrustMeant
<1>7. ASSUME NEW t \in DOMAIN b.receipts
      PROVE  ReceiptMeant(t, b, e)
    <2>1. ReceiptMeant(t, b, d) /\ t \in T
        BY DEF Meant
    <2>2. IsReceipt(d.receipts[t], IF "terminal" \in d.columns THEN {"pending", "known", "terminal"} ELSE {"untold"})
        BY <2>1 DEF IsDatabase
    <2>3. OutcomeMeant(d.receipts[t], b.receipts[t], d.columns)
        BY <2>1 DEF ReceiptMeant
    <2>5. IsColumn(t)
        BY <1>3, <2>1
    <2>4. OutcomeMeant(e.receipts[t], b.receipts[t], e.columns)
        <3>1. CASE told
            <4>1. /\ "terminal" \notin d.columns /\ "terminal" \in e.columns
                  /\ e.receipts[t].state = "terminal" /\ e.receipts[t].status = d.receipts[t].status
                BY <1>1, <2>5, <3>1 DEF IsColumn
            <4>2. d.receipts[t].state = "untold"
                BY <2>2, <4>1 DEF IsReceipt
            <4> QED
                BY <2>3, <4>1, <4>2 DEF OutcomeMeant, Expected
        <3>2. CASE ~told
            <4>1. "terminal" \in e.columns <=> "terminal" \in d.columns
                BY <1>1, <3>2
            <4>2. e.receipts[t].state = d.receipts[t].state /\ e.receipts[t].status = d.receipts[t].status
                BY <2>5, <3>2 DEF IsColumn
            <4> QED
                BY <2>3, <4>1, <4>2 DEF OutcomeMeant
        <3> QED
            BY <3>1, <3>2
    <2>6. e.receipts[t].started = d.receipts[t].started /\ e.receipts[t].anchor = d.receipts[t].anchor
        BY <2>5 DEF IsColumn
    <2> QED
        BY <2>1, <2>4, <2>6 DEF ReceiptMeant
<1>8. Meant(b, e)
    BY <1>1, <1>3, <1>5, <1>6, <1>7 DEF Meant
<1>9. Holds(column, b, e)
    BY <1>1, <1>2 DEF Holds
<1>10. ASSUME NEW s \in Statements, Holds(s, b, d)
       PROVE  Holds(s, b, e)
    <2>1. DOMAIN b.receipts = T
        BY DEF Meant
    <2>2. CASE s = "placeReceipts"
        <3>1. ASSUME NEW t \in T
              PROVE  e.receipts[t].anchor = d.receipts[t].anchor
            <4>1. IsColumn(t)
                BY <1>3, <3>1
            <4> QED
                BY <4>1 DEF IsColumn
        <3> QED
            BY <1>10, <2>1, <2>2, <3>1 DEF Holds
    <2>3. CASE s # "placeReceipts"
        BY <1>1, <1>10, <2>3 DEF Holds, Retired, Statements
    <2> QED
        BY <2>2, <2>3
<1> QED
    BY <1>4, <1>8, <1>9, <1>10 DEF e

\* The other statements do, too.
LEMMA TablesKeep ==
    ASSUME NEW b, NEW d, IsDatabase(b), IsDatabase(d), Meant(b, d)
    PROVE  LET e == Migrations!CreateTables(d)
           IN  IsDatabase(e) /\ Meant(b, e) /\ Holds("tables", b, e)
<1> DEFINE e == Migrations!CreateTables(d)
<1>1. CASE d.tables
    <2>1. e = d
        BY <1>1 DEF Migrations!CreateTables, IsDatabase
    <2> QED
        BY <1>1, <2>1 DEF Holds
<1>2. CASE ~d.tables
    <2>1. e = [tables |-> TRUE, columns |-> d.columns \cup {"receiptAccount", "terminal", "anchor"},
               confirmed |-> d.confirmed, session |-> d.session, messages |-> d.messages,
               receipts |-> d.receipts]
        <3> DEFINE new == IF d.tables THEN {} ELSE {"receiptAccount", "terminal", "anchor"}
                   r == [d EXCEPT !.columns = @ \cup new]
        <3>1. r = [tables |-> d.tables, columns |-> d.columns \cup {"receiptAccount", "terminal", "anchor"},
                   confirmed |-> d.confirmed, session |-> d.session, messages |-> d.messages,
                   receipts |-> d.receipts]
            <4>1. new = {"receiptAccount", "terminal", "anchor"}
                BY <1>2
            <4>2. d = [tables |-> d.tables, columns |-> d.columns, confirmed |-> d.confirmed,
                       session |-> d.session, messages |-> d.messages, receipts |-> d.receipts]
                BY DEF IsDatabase
            <4> HIDE DEF new
            <4>4. r = [tables |-> d.tables, columns |-> d.columns \cup new,
                       confirmed |-> d.confirmed, session |-> d.session, messages |-> d.messages,
                       receipts |-> d.receipts]
                BY <4>2
            <4> QED
                BY <4>1, <4>4
        <3>2. e = [r EXCEPT !.tables = TRUE]
            BY DEF Migrations!CreateTables
        <3> HIDE DEF r, e
        <3> QED
            BY <3>1, <3>2
    <2> HIDE DEF e
    <2>2. DOMAIN d.receipts = {} /\ DOMAIN b.receipts = {}
        BY <1>2 DEF IsDatabase, Meant
    <2>3. IsDatabase(e)
        BY <2>1, <2>2 DEF IsDatabase
    <2>4. /\ SessionMeant(b, e) /\ TrustMeant(b, e)
        BY <2>1 DEF Meant, SessionMeant, TrustMeant, Retired
    <2>5. Meant(b, e)
        BY <2>1, <2>2, <2>4 DEF Meant
    <2> QED
        BY <2>1, <2>3, <2>5 DEF Holds, e
<1> QED
    BY <1>1, <1>2

\* d with another session.
LEMMA SessionKeeps ==
    ASSUME NEW b, NEW d, IsDatabase(b), IsDatabase(d), Meant(b, d), {"model", "account"} \subseteq d.columns,
           NEW session, session = [model |-> session.model, account |-> session.account],
           SessionMeant(b, [d EXCEPT !.session = session])
    PROVE  IsDatabase([d EXCEPT !.session = session]) /\ Meant(b, [d EXCEPT !.session = session])
<1> DEFINE e == [d EXCEPT !.session = session]
<1>1. e = [tables |-> d.tables, columns |-> d.columns, confirmed |-> d.confirmed,
           session |-> session, messages |-> d.messages, receipts |-> d.receipts]
    BY DEF IsDatabase
<1>2. IsDatabase(e)
    BY <1>1 DEF IsDatabase
<1>3. TrustMeant(b, e)
    BY <1>1 DEF Meant, TrustMeant
<1>4. \A t \in DOMAIN b.receipts : ReceiptMeant(t, b, e)
    BY <1>1 DEF Meant, ReceiptMeant
<1>5. SessionMeant(b, e)
    OBVIOUS
<1> HIDE DEF e
<1>6. Meant(b, e)
    BY <1>1, <1>3, <1>4, <1>5 DEF Meant
<1> QED
    BY <1>2, <1>6 DEF e

LEMMA RetireKeeps ==
    ASSUME NEW b, NEW d, IsDatabase(b), IsDatabase(d), Meant(b, d), {"model", "account"} \subseteq d.columns
    PROVE  LET e == [d EXCEPT !.session = Migrations!RetireClaude(@)]
           IN  /\ IsDatabase(e) /\ Meant(b, e) /\ Holds("retireClaude", b, e)
               /\ \A s \in {"tables"} \cup Migrations!Columns : Holds(s, b, d) => Holds(s, b, e)
<1> DEFINE session == Migrations!RetireClaude(d.session)
           e == [d EXCEPT !.session = session]
<1>1. /\ e = [tables |-> d.tables, columns |-> d.columns, confirmed |-> d.confirmed,
              session |-> session, messages |-> d.messages, receipts |-> d.receipts]
      /\ d.session = [model |-> d.session.model, account |-> d.session.account]
    BY DEF IsDatabase
<1>2. session = IF d.session.model \in Retired THEN [model |-> "terra", account |-> "primary"] ELSE d.session
    BY DEF Migrations!RetireClaude, Retired
<1> HIDE DEF session
<1>3. session = [model |-> session.model, account |-> session.account]
    BY <1>1, <1>2
<1>4. SessionMeant(b, e)
    <2>1. SessionMeant(b, d)
        BY DEF Meant
    <2>2. e.session = session /\ e.columns = d.columns
        BY <1>1
    <2> HIDE DEF e
    <2> QED
        BY <1>2, <2>1, <2>2 DEF SessionMeant, Retired
<1>5. IsDatabase(e) /\ Meant(b, e)
    BY <1>3, <1>4, SessionKeeps
<1>6. Holds("retireClaude", b, e)
    BY <1>1, <1>2 DEF Holds, Retired
<1>7. \A s \in {"tables"} \cup Migrations!Columns : Holds(s, b, d) => Holds(s, b, e)
    BY <1>1 DEF Holds, Migrations!Columns
<1> QED
    BY <1>5, <1>6, <1>7 DEF session

LEMMA OneAccountKeeps ==
    ASSUME NEW b, NEW d, IsDatabase(b), IsDatabase(d), Meant(b, d), {"model", "account"} \subseteq d.columns
    PROVE  LET e == [d EXCEPT !.session = Migrations!OneAccount(@)]
           IN  /\ IsDatabase(e) /\ Meant(b, e) /\ Holds("oneAccount", b, e)
               /\ \A s \in {"tables", "retireClaude"} \cup Migrations!Columns : Holds(s, b, d) => Holds(s, b, e)
<1> DEFINE session == Migrations!OneAccount(d.session)
           e == [d EXCEPT !.session = session]
<1>1. /\ e = [tables |-> d.tables, columns |-> d.columns, confirmed |-> d.confirmed,
              session |-> session, messages |-> d.messages, receipts |-> d.receipts]
      /\ d.session = [model |-> d.session.model, account |-> d.session.account]
    BY DEF IsDatabase
<1>2. session = [model |-> d.session.model,
                 account |-> IF d.session.model \in {"gpt", "terra"} THEN "primary" ELSE d.session.account]
    BY <1>1 DEF Migrations!OneAccount
<1> HIDE DEF session
<1>3. session = [model |-> session.model, account |-> session.account]
    BY <1>2
<1>4. SessionMeant(b, e)
    <2>1. SessionMeant(b, d)
        BY DEF Meant
    <2>2. e.session = session /\ e.columns = d.columns
        BY <1>1
    <2> HIDE DEF e
    <2> QED
        BY <1>2, <2>1, <2>2 DEF SessionMeant, Retired
<1>5. IsDatabase(e) /\ Meant(b, e)
    BY <1>3, <1>4, SessionKeeps
<1>6. Holds("oneAccount", b, e)
    BY <1>1, <1>2 DEF Holds
<1>7. \A s \in {"tables", "retireClaude"} \cup Migrations!Columns : Holds(s, b, d) => Holds(s, b, e)
    BY <1>1, <1>2 DEF Holds, Migrations!Columns, Retired
<1> QED
    BY <1>5, <1>6, <1>7 DEF session

\* d with other receipts, each of which may stand.
LEMMA ReceiptsKeep ==
    ASSUME NEW b, NEW d, IsDatabase(b), IsDatabase(d), Meant(b, d), NEW receipts,
           receipts = [t \in DOMAIN d.receipts |-> receipts[t]],
           \A t \in DOMAIN d.receipts :
             /\ IsReceipt(receipts[t], IF "terminal" \in d.columns THEN {"pending", "known", "terminal"} ELSE {"untold"})
             /\ ReceiptMeant(t, b, [d EXCEPT !.receipts = receipts])
    PROVE  LET e == [d EXCEPT !.receipts = receipts]
           IN  /\ IsDatabase(e) /\ Meant(b, e)
               /\ \A s \in Statements \ {"placeReceipts"} : Holds(s, b, d) => Holds(s, b, e)
<1> DEFINE e == [d EXCEPT !.receipts = receipts]
<1>1. e = [tables |-> d.tables, columns |-> d.columns, confirmed |-> d.confirmed,
           session |-> d.session, messages |-> d.messages, receipts |-> receipts]
    BY DEF IsDatabase
<1>2. \A t \in DOMAIN d.receipts : ReceiptMeant(t, b, e)
    OBVIOUS
<1> HIDE DEF e
<1>3. DOMAIN receipts = DOMAIN d.receipts
    OBVIOUS
<1>4. IsDatabase(e)
    BY <1>1, <1>3 DEF IsDatabase
<1>5. SessionMeant(b, e) /\ TrustMeant(b, e)
    BY <1>1 DEF Meant, SessionMeant, TrustMeant
<1>6. Meant(b, e)
    BY <1>1, <1>2, <1>3, <1>5 DEF Meant
<1>7. \A s \in Statements \ {"placeReceipts"} : Holds(s, b, d) => Holds(s, b, e)
    BY <1>1 DEF Holds, Statements
<1> QED
    BY <1>4, <1>6, <1>7 DEF e

LEMMA PlacesKeep ==
    ASSUME NEW b, NEW d, IsDatabase(b), IsDatabase(d), Meant(b, d)
    PROVE  LET e == [d EXCEPT !.receipts = Migrations!PlaceReceipts(d)]
           IN  /\ IsDatabase(e) /\ Meant(b, e) /\ Holds("placeReceipts", b, e)
               /\ \A s \in Statements \ {"placeReceipts"} : Holds(s, b, d) => Holds(s, b, e)
<1> DEFINE receipts == Migrations!PlaceReceipts(d)
           T == DOMAIN d.receipts
           e == [d EXCEPT !.receipts = receipts]
           states == IF "terminal" \in d.columns THEN {"pending", "known", "terminal"} ELSE {"untold"}
<1>1. /\ receipts = [t \in T |-> IF d.receipts[t].anchor = Null
                                 THEN [d.receipts[t] EXCEPT !.anchor = Migrations!PlaceOf(t, d)]
                                 ELSE d.receipts[t]]
      /\ T = DOMAIN b.receipts /\ d.messages = b.messages
    BY DEF Migrations!PlaceReceipts, Null, Meant
<1>2. e.receipts = receipts /\ e.columns = d.columns
    BY DEF IsDatabase
<1>3. receipts = [t \in T |-> receipts[t]]
    BY <1>1
<1>4. ASSUME NEW t \in T
      PROVE  /\ IsReceipt(receipts[t], states) /\ ReceiptMeant(t, b, e)
             /\ b.receipts[t].anchor = Null => receipts[t].anchor = Migrations!PlaceOf(t, b)
    <2> DEFINE r == d.receipts[t]
               q == receipts[t]
               o == b.receipts[t]
               place == Migrations!PlaceOf(t, d)
    <2>1. IsReceipt(r, states)
        BY <1>4 DEF IsDatabase
    <2>2. ReceiptMeant(t, b, d)
        BY <1>1, <1>4 DEF Meant
    <2>3. r.started = o.started
        BY <2>2 DEF ReceiptMeant
    <2>4. place = Migrations!PlaceOf(t, b) /\ place \in Nat
        BY <1>1, <1>4, <2>3, PlacesAgree, PlaceIs
    <2>5. q = IF r.anchor = Null THEN [r EXCEPT !.anchor = place] ELSE r
        BY <1>1, <1>4
    <2>6. r = [state |-> r.state, status |-> r.status, anchor |-> r.anchor, started |-> r.started]
        BY <2>1 DEF IsReceipt
    <2> HIDE DEF q, r, place, states, receipts
    <2>7. /\ q = [state |-> r.state, status |-> r.status, started |-> r.started,
                  anchor |-> IF r.anchor = Null THEN place ELSE r.anchor]
        BY <2>5, <2>6
    <2>8. IsReceipt(q, states)
        BY <2>1, <2>4, <2>7 DEF IsReceipt
    <2>9. /\ o.anchor # Null => r.anchor = o.anchor
          /\ o.anchor = Null => r.anchor \in {Null, place}
          /\ OutcomeMeant(r, o, d.columns)
        BY <2>2, <2>4 DEF ReceiptMeant, r
    <2>10. OutcomeMeant(q, o, e.columns)
        BY <1>2, <2>7, <2>9 DEF OutcomeMeant
    <2>11. e.receipts[t] = q
        BY <1>2 DEF q
    <2> HIDE DEF e
    <2>12. ReceiptMeant(t, b, e)
        BY <2>3, <2>4, <2>7, <2>9, <2>10, <2>11 DEF ReceiptMeant, r
    <2>13. o.anchor = Null => q.anchor = Migrations!PlaceOf(t, b)
        BY <2>4, <2>7, <2>9
    <2> QED
        BY <2>8, <2>12, <2>13 DEF q, receipts, states, e
<1> HIDE DEF receipts
<1>5. /\ IsDatabase(e) /\ Meant(b, e)
      /\ \A s \in Statements \ {"placeReceipts"} : Holds(s, b, d) => Holds(s, b, e)
    BY <1>3, <1>4, ReceiptsKeep
<1>6. Holds("placeReceipts", b, e)
    BY <1>1, <1>2, <1>4 DEF Holds
<1> QED
    BY <1>5, <1>6 DEF receipts

\* A receipt is recovered.
LEMMA RecoverKeeps ==
    ASSUME NEW b, NEW d, IsDatabase(b), IsDatabase(d), Meant(b, d), "terminal" \in d.columns,
           NEW u \in DOMAIN d.receipts, d.receipts[u].state # "terminal"
    PROVE  LET e == [d EXCEPT !.receipts[u] = Migrations!Recovered(@)]
           IN  /\ IsDatabase(e) /\ Meant(b, e)
               /\ \A s \in Statements : Holds(s, b, d) => Holds(s, b, e)
<1> DEFINE T == DOMAIN d.receipts
           receipts == [d.receipts EXCEPT ![u] = Migrations!Recovered(@)]
           e == [d EXCEPT !.receipts = receipts]
           states == IF "terminal" \in d.columns THEN {"pending", "known", "terminal"} ELSE {"untold"}
<1>1. /\ d.receipts = [t \in T |-> d.receipts[t]] /\ T = DOMAIN b.receipts
      /\ \A t \in T : IsReceipt(d.receipts[t], states) /\ ReceiptMeant(t, b, d)
    BY DEF IsDatabase, Meant
<1>2. receipts = [t \in T |-> IF t = u THEN Migrations!Recovered(d.receipts[u]) ELSE d.receipts[t]]
    BY <1>1
<1>3. e.receipts = receipts /\ e.columns = d.columns
    BY DEF IsDatabase
<1>4. receipts = [t \in T |-> receipts[t]]
    BY <1>2
<1>5. ASSUME NEW t \in T
      PROVE  /\ IsReceipt(receipts[t], states) /\ ReceiptMeant(t, b, e)
             /\ receipts[t].anchor = d.receipts[t].anchor
    <2> DEFINE r == d.receipts[t]
               q == receipts[t]
               o == b.receipts[t]
    <2>1. IsReceipt(r, states) /\ ReceiptMeant(t, b, d)
        BY <1>1, <1>5
    <2>2. e.receipts[t] = q
        BY <1>3
    <2>3. CASE t # u
        <3>1. q = r
            BY <1>2, <1>5, <2>3
        <3> HIDE DEF e, q
        <3> QED
            BY <1>3, <2>1, <2>2, <3>1 DEF ReceiptMeant, q
    <2>4. CASE t = u
        <3>1. q = Migrations!Recovered(r)
            BY <1>2, <1>5, <2>4
        <3>2. r = [state |-> r.state, status |-> r.status, anchor |-> r.anchor, started |-> r.started]
            BY <2>1 DEF IsReceipt
        <3>3. r.state \in {"pending", "known"}
            BY <2>1, <2>4 DEF IsReceipt
        <3> HIDE DEF r, q, receipts, e
        <3>4. q = [state |-> "terminal", anchor |-> r.anchor, started |-> r.started,
                   status |-> IF Migrations!OutcomeIsKnown(r) THEN r.status ELSE "interrupted"]
            <4> DEFINE w == [r EXCEPT !.state = "terminal"]
            <4>1. w = [state |-> "terminal", status |-> r.status, anchor |-> r.anchor, started |-> r.started]
                BY <3>2
            <4>2. q = [w EXCEPT !.status = IF Migrations!OutcomeIsKnown(r) THEN r.status ELSE "interrupted"]
                BY <3>1, <3>3 DEF Migrations!Recovered
            <4> HIDE DEF w
            <4> QED
                BY <4>1, <4>2
        <3>5. IsReceipt(q, states)
            BY <2>1, <3>4 DEF IsReceipt, r
        <3>6. OutcomeMeant(r, o, d.columns)
            BY <2>1 DEF ReceiptMeant, r
        <3>7. r.state = o.state /\ r.status = o.status
            BY <3>3, <3>6 DEF OutcomeMeant
        <3>8. q.status = Expected(o)
            BY <3>3, <3>4, <3>7 DEF Expected, Migrations!OutcomeIsKnown
        <3>9. OutcomeMeant(q, o, e.columns)
            BY <1>3, <3>4, <3>8 DEF OutcomeMeant
        <3>10. ReceiptMeant(t, b, e)
            BY <2>1, <2>2, <3>4, <3>9 DEF ReceiptMeant, r
        <3> QED
            BY <3>4, <3>5, <3>10 DEF q, r
    <2> QED
        BY <2>3, <2>4
<1> HIDE DEF receipts
<1>6. /\ IsDatabase(e) /\ Meant(b, e)
      /\ \A s \in Statements \ {"placeReceipts"} : Holds(s, b, d) => Holds(s, b, e)
    BY <1>4, <1>5, ReceiptsKeep
<1>7. Holds("placeReceipts", b, d) => Holds("placeReceipts", b, e)
    BY <1>1, <1>3, <1>5 DEF Holds
<1> QED
    BY <1>6, <1>7 DEF receipts

LEMMA MigrationsBegin ==
    ASSUME Migrations!Init
    PROVE  MigrationsInv
<1>1. db \in Databases /\ before = db /\ at = "closed"
    BY DEF Migrations!Init
<1>2. IsDatabase(db)
    BY <1>1, DatabasesAreOld
<1>3. Meant(db, db)
    BY <1>2 DEF Meant, SessionMeant, TrustMeant, ReceiptMeant, OutcomeMeant, IsDatabase, IsReceipt
<1> QED
    BY <1>1, <1>2, <1>3 DEF MigrationsInv, Statements

\* A statement runs.
LEMMA ExecuteKeeps ==
    ASSUME MigrationsInv, Migrations!Execute
    PROVE  MigrationsInv'
<1>1. /\ at \in Statements \ {"recover"}
      /\ db' = Migrations!Run(at, db) /\ at' = Migrations!Next1(at) /\ before' = before
      /\ IsDatabase(db) /\ IsDatabase(before) /\ Meant(before, db)
      /\ \A s \in Behind(at) : Holds(s, before, db)
    BY DEF MigrationsInv, Migrations!Execute, Statements
<1>2. at' \in Statements /\ Behind(at') \subseteq Behind(at) \cup {at}
    BY <1>1, StatementsGoOn
<1>3. /\ IsDatabase(db') /\ Meant(before, db') /\ Holds(at, before, db')
      /\ \A s \in Behind(at) : Holds(s, before, db) => Holds(s, before, db')
    <2>1. CASE at = "tables"
        <3>1. db' = Migrations!CreateTables(db)
            BY <1>1, <2>1 DEF Migrations!Run
        <3>2. Behind(at) = {}
            BY <2>1 DEF Behind
        <3> QED
            BY <1>1, <2>1, <3>1, <3>2, TablesKeep
    <2>2. CASE at = "retireClaude"
        <3>1. db' = [db EXCEPT !.session = Migrations!RetireClaude(@)]
            BY <1>1, <2>2 DEF Migrations!Run
        <3>2. {"model", "account"} \subseteq Behind(at) /\ Behind(at) \subseteq {"tables"} \cup Migrations!Columns
            BY <2>2 DEF Behind, Migrations!Columns
        <3>3. {"model", "account"} \subseteq db.columns
            BY <1>1, <3>2 DEF Holds
        <3> QED
            BY <1>1, <2>2, <3>1, <3>2, <3>3, RetireKeeps
    <2>3. CASE at = "oneAccount"
        <3>1. db' = [db EXCEPT !.session = Migrations!OneAccount(@)]
            BY <1>1, <2>3 DEF Migrations!Run
        <3>2. /\ {"model", "account"} \subseteq Behind(at)
              /\ Behind(at) \subseteq {"tables", "retireClaude"} \cup Migrations!Columns
            BY <2>3 DEF Behind, Migrations!Columns
        <3>3. {"model", "account"} \subseteq db.columns
            BY <1>1, <3>2 DEF Holds
        <3> QED
            BY <1>1, <2>3, <3>1, <3>2, <3>3, OneAccountKeeps
    <2>4. CASE at = "placeReceipts"
        <3>1. db' = [db EXCEPT !.receipts = Migrations!PlaceReceipts(db)]
            BY <1>1, <2>4 DEF Migrations!Run
        <3>2. Behind(at) \subseteq Statements \ {"placeReceipts"}
            BY <2>4 DEF Behind
        <3> QED
            BY <1>1, <2>4, <3>1, <3>2, PlacesKeep
    <2>5. CASE at \in Migrations!Columns
        <3>1. db' = Migrations!Add(at, db)
            BY <1>1, <2>5 DEF Migrations!Run, Migrations!Columns
        <3>2. Behind(at) \subseteq Statements
            BY <1>1 DEF Behind, Statements
        <3> QED
            BY <1>1, <2>5, <3>1, <3>2, AddKeeps
    <2> QED
        BY <1>1, <2>1, <2>2, <2>3, <2>4, <2>5 DEF Statements, Migrations!Columns
<1>4. \A s \in Behind(at') : Holds(s, before, db')
    BY <1>1, <1>2, <1>3
<1>5. at' # "open"
    BY <1>2 DEF Statements
<1> HIDE DEF Migrations!Run
<1> QED
    BY <1>1, <1>2, <1>3, <1>4 DEF MigrationsInv

LEMMA RecoverStays ==
    ASSUME MigrationsInv, Migrations!Recover
    PROVE  MigrationsInv'
<1>1. /\ at = "recover" /\ before' = before
      /\ IsDatabase(db) /\ IsDatabase(before) /\ Meant(before, db)
      /\ \A s \in Statements \ {"recover"} : Holds(s, before, db)
    BY DEF MigrationsInv, Migrations!Recover, Behind, Statements
<1>2. CASE Migrations!OpenReceipts = {}
    <2>1. at' = "open" /\ db' = db
        BY <1>2 DEF Migrations!Recover
    <2> QED
        BY <1>1, <2>1 DEF MigrationsInv, Statements
<1>3. CASE Migrations!OpenReceipts # {}
    <2>1. PICK u \in Migrations!OpenReceipts : db' = [db EXCEPT !.receipts[u] = Migrations!Recovered(@)]
        BY <1>3 DEF Migrations!Recover
    <2>2. at' = at
        BY <1>3 DEF Migrations!Recover
    <2>3. u \in DOMAIN db.receipts /\ db.receipts[u].state # "terminal"
        BY <2>1 DEF Migrations!OpenReceipts
    <2>4. "terminal" \in db.columns
        BY <1>1 DEF Holds, Statements
    <2>5. IsDatabase(db') /\ Meant(before, db') /\ \A s \in Statements : Holds(s, before, db) => Holds(s, before, db')
        BY <1>1, <2>1, <2>3, <2>4, RecoverKeeps
    <2>6. \A s \in Behind(at) : Holds(s, before, db')
        BY <1>1, <2>5 DEF Behind
    <2> QED
        BY <1>1, <2>2, <2>5, <2>6 DEF MigrationsInv, Statements
<1> QED
    BY <1>2, <1>3

LEMMA SaveStays ==
    ASSUME MigrationsInv, Migrations!SaveMessage
    PROVE  MigrationsInv'
<1>0. PICK ticks \in {0, 1} :
        db' = [db EXCEPT !.messages = Append(@, [turn |-> 0, time |-> Migrations!LastTime + ticks])]
    BY DEF Migrations!SaveMessage
<1> DEFINE m == [turn |-> 0, time |-> Migrations!LastTime + ticks]
           list == db.messages
           more == Append(list, m)
<1>1. /\ at = "open" /\ at' = "open" /\ before' = before
      /\ db' = [db EXCEPT !.messages = Append(@, m)]
      /\ IsDatabase(db) /\ IsDatabase(before)
    BY <1>0 DEF Migrations!SaveMessage, MigrationsInv
<1>2. db' = [tables |-> db.tables, columns |-> db.columns, confirmed |-> db.confirmed,
             session |-> db.session, messages |-> more, receipts |-> db.receipts]
    BY <1>1 DEF IsDatabase
<1>3. IsList(list) /\ Len(list) \in Nat
    BY <1>1 DEF IsDatabase, IsList
<1>4. /\ IsList(more) /\ DOMAIN list = 1 .. Len(list) /\ DOMAIN more = 1 .. Len(list) + 1
      /\ \A i \in DOMAIN list : more[i] = list[i]
      /\ more[Len(list) + 1] = m
    <2> DEFINE S == {list[i] : i \in 1 .. Len(list)} \cup {m}
    <2>1. list \in Seq(S)
        BY <1>3 DEF IsList
    <2> HIDE DEF list, S
    <2>2. m \in S
        BY DEF S
    <2> HIDE DEF m
    <2>3. more \in Seq(S) /\ Len(more) = Len(list) + 1 /\ Len(list) \in Nat
        BY <2>1, <2>2
    <2>4. /\ DOMAIN list = 1 .. Len(list)
          /\ \A i \in 1 .. Len(list) : more[i] = list[i]
          /\ more[Len(list) + 1] = m
        BY <2>1, <2>2
    <2> HIDE DEF more
    <2>5. DOMAIN more = 1 .. Len(list) + 1 /\ IsList(more)
        BY <2>3 DEF IsList
    <2> QED
        BY <2>4, <2>5
<1>5. \A i \in DOMAIN list : list[i].time \in Nat /\ \A j \in 1 .. i : list[j].time <= list[i].time
    BY <1>1 DEF IsDatabase
<1>6. m.time \in Nat /\ \A i \in DOMAIN list : list[i].time <= m.time
    <2>1. CASE list = <<>>
        BY <1>3, <1>4, <2>1 DEF Migrations!LastTime
    <2>2. CASE list # <<>>
        <3>1. Len(list) \in DOMAIN list
            <4> HIDE DEF list
            <4>1. list = [i \in 1 .. Len(list) |-> list[i]] /\ DOMAIN list = 1 .. Len(list)
                BY <1>3, <1>4 DEF IsList
            <4>2. Len(list) # 0
                BY <1>3, <2>2, <4>1
            <4> QED
                BY <1>3, <4>1, <4>2
        <3>2. list[Len(list)].time \in Nat /\ \A i \in DOMAIN list : list[i].time <= list[Len(list)].time
            BY <1>3, <1>4, <1>5, <3>1
        <3>3. m.time = list[Len(list)].time + ticks
            BY <2>2 DEF Migrations!LastTime
        <3> QED
            BY <1>0, <1>5, <3>2, <3>3
    <2> QED
        BY <2>1, <2>2
<1> HIDE DEF list, more, m
<1>7. ASSUME NEW i \in DOMAIN more
      PROVE  more[i].time \in Nat /\ \A j \in 1 .. i : more[j].time <= more[i].time
    <2>1. CASE i \in DOMAIN list
        BY <1>3, <1>4, <1>5, <2>1
    <2>2. CASE i = Len(list) + 1
        <3>1. \A j \in 1 .. i : more[j].time \in Nat
            BY <1>3, <1>4, <1>5, <1>6, <2>2
        <3>2. more[i] = m /\ \A j \in 1 .. i : j = i \/ j \in DOMAIN list
            BY <1>3, <1>4, <2>2
        <3>3. \A j \in 1 .. i : more[j].time <= m.time
            BY <1>4, <1>6, <3>2
        <3> QED
            BY <1>6, <3>2, <3>3
    <2> QED
        BY <1>3, <1>4, <1>7, <2>1, <2>2
<1>8. IsDatabase(db')
    <2>1. /\ db'.tables = db.tables /\ db'.columns = db.columns /\ db'.confirmed = db.confirmed
          /\ db'.session = db.session /\ db'.messages = more /\ db'.receipts = db.receipts
        BY <1>2
    <2>2. db' = [tables |-> db'.tables, columns |-> db'.columns, confirmed |-> db'.confirmed,
                 session |-> db'.session, messages |-> db'.messages, receipts |-> db'.receipts]
        BY <1>2
    <2>3. /\ IsList(db'.messages)
          /\ \A i \in DOMAIN db'.messages :
               db'.messages[i].time \in Nat /\ \A j \in 1 .. i : db'.messages[j].time <= db'.messages[i].time
        BY <1>4, <1>7, <2>1
    <2> QED
        BY <1>1, <2>1, <2>2, <2>3 DEF IsDatabase
<1> QED
    BY <1>1, <1>8 DEF MigrationsInv, Statements

LEMMA MigrationsStay ==
    ASSUME MigrationsInv, Migrations!Next
    PROVE  MigrationsInv'
<1>1. CASE Migrations!Start
    BY <1>1 DEF Migrations!Start, MigrationsInv, Statements, Behind
<1>2. CASE Migrations!GiveUp
    BY <1>2 DEF Migrations!GiveUp, MigrationsInv, Statements
<1>3. CASE Migrations!ConfirmDevice
    <2>1. /\ at = "open" /\ at' = "open" /\ before' = before
          /\ db' = [db EXCEPT !.confirmed = TRUE]
          /\ IsDatabase(db) /\ IsDatabase(before)
        BY <1>3 DEF Migrations!ConfirmDevice, MigrationsInv
    <2>2. db' = [tables |-> db.tables, columns |-> db.columns, confirmed |-> TRUE,
                 session |-> db.session, messages |-> db.messages, receipts |-> db.receipts]
        BY <2>1 DEF IsDatabase
    <2>3. IsDatabase(db')
        BY <2>1, <2>2 DEF IsDatabase
    <2> QED
        BY <2>1, <2>3 DEF MigrationsInv, Statements
<1>4. CASE Migrations!Quit
    <2>1. at = "open" /\ at' = "closed" /\ before' = db /\ db' = db /\ IsDatabase(db)
        BY <1>4 DEF Migrations!Quit, MigrationsInv
    <2>2. Meant(db, db)
        BY <2>1 DEF Meant, SessionMeant, TrustMeant, ReceiptMeant, OutcomeMeant, IsDatabase, IsReceipt
    <2> QED
        BY <2>1, <2>2 DEF MigrationsInv, Statements
<1> QED
    BY <1>1, <1>2, <1>3, <1>4, ExecuteKeeps, RecoverStays, SaveStays DEF Migrations!Next

\* The start that gets through leaves what was meant.
LEMMA OpenLeaves ==
    ASSUME MigrationsInv, Migrations!Next
    PROVE  Migrations!StartKeeps
<1> SUFFICES ASSUME at # "open", at' = "open"
             PROVE  /\ db'.tables /\ Migrations!Columns \subseteq db'.columns
                    /\ Migrations!TrustKept(before, db') /\ Migrations!SessionKept(before, db')
                    /\ db'.messages = before.messages
                    /\ \A t \in DOMAIN before.receipts : /\ Migrations!OutcomeKept(t, before, db')
                                                         /\ Migrations!PlaceKept(t, before, db')
    BY DEF Migrations!StartKeeps
<1>1. Migrations!Recover
    <2>1. ASSUME Migrations!Execute
          PROVE  FALSE
        <3>1. at \in Statements \ {"recover"} /\ at' = Migrations!Next1(at)
            BY <2>1 DEF MigrationsInv, Migrations!Execute, Statements
        <3>2. at' \in Statements
            BY <3>1, StatementsGoOn
        <3> QED
            BY <3>2 DEF Statements
    <2> QED
        BY <2>1 DEF Migrations!Next, Migrations!Start, Migrations!GiveUp, Migrations!SaveMessage,
            Migrations!ConfirmDevice, Migrations!Quit
<1>2. /\ at = "recover" /\ Migrations!OpenReceipts = {} /\ db' = db
      /\ IsDatabase(db) /\ IsDatabase(before) /\ Meant(before, db)
    BY <1>1 DEF Migrations!Recover, MigrationsInv
<1>3. \A s \in Statements \ {"recover"} : Holds(s, before, db)
    BY <1>2 DEF MigrationsInv, Behind, Statements
<1>4. db.tables /\ Migrations!Columns \subseteq db.columns
    BY <1>3 DEF Holds, Statements, Migrations!Columns
<1>5. /\ {"account", "confirmed", "terminal"} \subseteq db.columns /\ db.messages = before.messages
      /\ DOMAIN db.receipts = DOMAIN before.receipts
    BY <1>2, <1>4 DEF Migrations!Columns, Meant
<1>6. Migrations!TrustKept(before, db)
    <2>1. TrustMeant(before, db) /\ db.confirmed \in BOOLEAN
        BY <1>2 DEF Meant, IsDatabase
    <2> QED
        BY <1>5, <2>1 DEF Migrations!TrustKept, TrustMeant
<1>7. Migrations!SessionKept(before, db)
    <2>1. SessionMeant(before, db)
        BY <1>2 DEF Meant
    <2>2. /\ db.session = [model |-> db.session.model, account |-> db.session.account]
          /\ before.session = [model |-> before.session.model, account |-> before.session.account]
        BY <1>2 DEF IsDatabase
    <2>3. /\ db.session.model \notin Retired
          /\ db.session.model \in {"gpt", "terra"} => db.session.account = "primary"
        BY <1>3 DEF Holds, Statements
    <2>4. CASE before.session.model = "other"
        <3>1. db.session.account = IF "account" \in before.columns THEN before.session.account ELSE "null"
            BY <1>5, <2>1, <2>4 DEF SessionMeant
        <3>2. db.session.model = "other"
            BY <2>1, <2>4 DEF SessionMeant
        <3>3. db.session = [before.session EXCEPT !.account = IF "account" \in before.columns THEN @ ELSE "null"]
            BY <2>2, <2>4, <3>1, <3>2
        <3> QED
            BY <2>4, <3>3 DEF Migrations!SessionKept
    <2>5. CASE before.session.model \in {"gpt", "terra"}
        <3>1. db.session.model = before.session.model /\ db.session.account = "primary"
            BY <2>1, <2>3, <2>5 DEF SessionMeant
        <3>2. db.session = [model |-> before.session.model, account |-> "primary"]
            BY <2>2, <3>1
        <3> QED
            BY <2>5, <3>2 DEF Migrations!SessionKept
    <2>6. CASE before.session.model \in Retired
        <3>1. db.session.model = "terra" /\ db.session.account = "primary"
            BY <2>1, <2>3, <2>6 DEF SessionMeant
        <3>2. db.session = [model |-> "terra", account |-> "primary"]
            BY <2>2, <3>1
        <3> QED
            BY <2>6, <3>2 DEF Migrations!SessionKept, Retired
    <2> QED
        BY <2>4, <2>5, <2>6 DEF Migrations!SessionKept, Retired
<1>8. ASSUME NEW t \in DOMAIN before.receipts
      PROVE  Migrations!OutcomeKept(t, before, db) /\ Migrations!PlaceKept(t, before, db)
    <2> DEFINE o == before.receipts[t]
               r == db.receipts[t]
    <2>1. t \in DOMAIN db.receipts /\ ReceiptMeant(t, before, db)
        BY <1>2, <1>5, <1>8 DEF Meant
    <2>2. r.state = "terminal"
        BY <1>2, <2>1 DEF Migrations!OpenReceipts
    <2>3. /\ OutcomeMeant(r, o, db.columns) /\ r.started = o.started
          /\ o.anchor # Null => r.anchor = o.anchor
        BY <2>1 DEF ReceiptMeant
    <2>4. r.status = Expected(o)
        BY <2>2, <2>3 DEF OutcomeMeant, Expected
    <2>5. Migrations!OutcomeKept(t, before, db)
        BY <2>2, <2>4 DEF Migrations!OutcomeKept, Expected, Migrations!Untold
    <2>6. o.anchor = Null => r.anchor = Migrations!PlaceOf(t, db)
        <3>1. Holds("placeReceipts", before, db)
            BY <1>3 DEF Statements
        <3>2. o.anchor = Null => r.anchor = Migrations!PlaceOf(t, before)
            BY <1>8, <3>1 DEF Holds
        <3>3. Migrations!PlaceOf(t, db) = Migrations!PlaceOf(t, before)
            BY <1>5, <2>3, PlacesAgree
        <3> QED
            BY <3>2, <3>3
    <2>7. Migrations!PlaceKept(t, before, db)
        <3> DEFINE place == Migrations!PlaceOf(t, db)
                   rows == Migrations!RowsOf(t, db)
        <3>1. /\ place \in Nat
              /\ rows # {} => place + 1 \in rows /\ \A i \in rows : place < i
              /\ rows = {} => \A i \in DOMAIN db.messages : i <= place <=> db.messages[i].time < r.started
            BY <1>2, <2>1, PlaceIs
        <3> HIDE DEF place, rows
        <3>2. CASE o.anchor # Null
            BY <2>3, <3>2 DEF Migrations!PlaceKept, Null
        <3>3. CASE o.anchor = Null
            <4>1. r.anchor = place
                BY <2>6, <3>3 DEF place
            <4> QED
                BY <3>1, <3>3, <4>1 DEF Migrations!PlaceKept, Null, rows
        <3> QED
            BY <3>2, <3>3
    <2> QED
        BY <2>5, <2>7
<1> QED
    BY <1>2, <1>4, <1>5, <1>6, <1>7, <1>8

\* However many starts were cut off between two statements, and whatever an earlier
\* build left, the start that gets through leaves what the last run meant: outcomes,
\* places, trust and models (Db::open).
THEOREM StartsKeepTheDatabase == Spec => OpenKeeps
<1> DEFINE I == part = "Migrations" => MigrationsInv
           A == part = "Migrations" => Migrations!StartKeeps
<1>1. Init => I
    BY MigrationsBegin DEF Init
<1>2. I /\ [Next]_vars => I'
  <2> SUFFICES ASSUME I, [Next]_vars, part = "Migrations" PROVE MigrationsInv'
    BY PartStays
  <2>1. CASE Migrations!Next
    BY <2>1, MigrationsStay
  <2>2. CASE UNCHANGED Migrations!vars
    BY <2>2 DEF Migrations!vars, MigrationsInv
  <2> QED
    BY <2>1, <2>2, MigrationsMoves
<1>3. I /\ [Next]_vars => [A]_vars
  <2> SUFFICES ASSUME I, [Next]_vars, part = "Migrations" PROVE Migrations!StartKeeps
    OBVIOUS
  <2>1. CASE Migrations!Next
    BY <2>1, OpenLeaves
  <2>2. CASE UNCHANGED Migrations!vars
    BY <2>2 DEF Migrations!vars, Migrations!StartKeeps
  <2> QED
    BY <2>1, <2>2, MigrationsMoves
<1>4. Spec => [][A]_vars
    BY <1>1, <1>2, <1>3, PTL DEF Spec
<1> QED
    BY <1>4 DEF OpenKeeps
-----------------------------------------------------------------------------
(* Account *)

Stages == {"idle", "waits", "reads", "cancels", "done"}
Answers == {"none", "not_begun", "failed", "signed_in", "signed_out", "unavailable", "timed_out",
            "timed_out_alone", "failed_key"}
Signing == [pc : Stages, wish : {"login", "key", "logout"}, had : BOOLEAN, answer : Answers]
Notes == [of : Callers, success : BOOLEAN]
AccountTypes ==
    /\ login \in [Callers -> {"no", "open", "succeeded", "failed", "cancelled"}]
    /\ accountCall \in [Callers -> Signing]
    /\ notes \in Seq(Notes)
    /\ results \subseteq Notes

\* Who has not begun has no login, and no answer before it is done.
BeginsOnce ==
    \A c \in Callers :
        /\ accountCall[c].pc = "idle" => login[c] = "no"
        /\ accountCall[c].pc # "done" => accountCall[c].answer = "none"

\* What was heard of a login that failed, or will be.
NewsAreTrue ==
    /\ \A r \in results : ~r.success => login[r.of] = "failed"
    /\ \A i \in 1 .. Len(notes) : ~notes[i].success => login[notes[i].of] = "failed"

\* An account that is there after a caller found none came by a login or by a key.
CameBy(d) == login[d] = "succeeded" \/ (accountCall[d].wish = "key" /\ accountCall[d].pc # "idle")
AccountCame ==
    \A c \in Callers :
        accountCall[c].pc \in {"waits", "reads", "cancels"} /\ ~accountCall[c].had /\ account # "none"
            => \E d \in Callers : CameBy(d)

AccountInv == AccountTypes /\ BeginsOnce /\ NewsAreTrue /\ AccountCame /\ Account!LoginIsItsOwn

LEMMA AccountBegins ==
    ASSUME Account!Init
    PROVE  AccountInv
<1> USE DEF Account!Init, Account!Caller
<1>1. PICK wish \in Wishes : accountCall = [c \in Callers |-> Account!Caller(wish[c])]
    OBVIOUS
<1>2. \A c \in Callers : wish[c] \in {"login", "key", "logout"}
    BY WishesAreKnown
<1>3. \A c \in Callers : accountCall[c] \in Signing
    BY <1>1, <1>2 DEF Signing, Stages, Answers
<1>4. notes \in Seq(Notes) /\ Len(notes) = 0
    OBVIOUS
<1>5. AccountTypes
    BY <1>1, <1>3, <1>4 DEF AccountTypes
<1> QED
    BY <1>1, <1>4, <1>5 DEF AccountInv, BeginsOnce, NewsAreTrue, AccountCame, Account!LoginIsItsOwn

\* A step of a caller changes its own record, and begins it.
CallIs(c, stage, had, told) ==
    /\ accountCall' \in [Callers -> Signing]
    /\ \A d \in Callers \ {c} : accountCall'[d] = accountCall[d]
    /\ accountCall'[c].wish = accountCall[c].wish
    /\ accountCall'[c].pc = stage /\ accountCall'[c].had = had /\ accountCall'[c].answer = told

LEMMA AnswerCall ==
    ASSUME AccountTypes, NEW c \in Callers, NEW told \in Answers, Account!Answer(c, told)
    PROVE  CallIs(c, "done", accountCall[c].had, told)
<1>1. accountCall[c] \in Signing
    BY DEF AccountTypes
<1> DEFINE r == [accountCall[c] EXCEPT !.pc = "done", !.answer = told]
<1>2. r \in Signing
    BY <1>1 DEF Signing, Stages
<1>3. accountCall' = [accountCall EXCEPT ![c] = r]
    BY DEF Account!Answer
<1>4. r.pc = "done" /\ r.wish = accountCall[c].wish /\ r.had = accountCall[c].had /\ r.answer = told
    BY <1>1 DEF Signing
<1> HIDE DEF r
<1> QED
    BY <1>2, <1>3, <1>4 DEF CallIs, AccountTypes

LEMMA GotoCall ==
    ASSUME AccountTypes, NEW c \in Callers, NEW stage \in Stages, accountCall' = [accountCall EXCEPT ![c].pc = stage]
    PROVE  CallIs(c, stage, accountCall[c].had, accountCall[c].answer)
<1>1. accountCall[c] \in Signing
    BY DEF AccountTypes
<1> DEFINE r == [accountCall[c] EXCEPT !.pc = stage]
<1>2. r \in Signing
    BY <1>1 DEF Signing
<1>3. accountCall' = [accountCall EXCEPT ![c] = r]
    OBVIOUS
<1>4. r.pc = stage /\ r.wish = accountCall[c].wish /\ r.had = accountCall[c].had /\ r.answer = accountCall[c].answer
    BY <1>1 DEF Signing
<1> HIDE DEF r
<1> QED
    BY <1>2, <1>3, <1>4 DEF CallIs, AccountTypes

LEMMA LoginCall ==
    ASSUME AccountTypes, NEW c \in Callers, Account!StartLogin(c)
    PROVE  \/ Account!Answer(c, "not_begun") /\ UNCHANGED login
           \/ /\ login' = [login EXCEPT ![c] = "open"]
              /\ \/ CallIs(c, "waits", account # "none", "none")
                 \/ CallIs(c, "done", account # "none", "not_begun")
<1> SUFFICES ASSUME ~(Account!Answer(c, "not_begun") /\ UNCHANGED login)
             PROVE  /\ login' = [login EXCEPT ![c] = "open"]
                    /\ \/ CallIs(c, "waits", account # "none", "none")
                       \/ CallIs(c, "done", account # "none", "not_begun")
    OBVIOUS
<1>1. accountCall[c] \in Signing
    BY Zenon DEF AccountTypes
<1>2. PICK begins \in BOOLEAN :
        accountCall' = [accountCall EXCEPT ![c].pc = IF begins THEN "waits" ELSE "done", ![c].had = account # "none",
                                           ![c].answer = IF begins THEN "none" ELSE "not_begun"]
    BY DEF Account!StartLogin
<1> DEFINE stage == IF begins THEN "waits" ELSE "done"
           told == IF begins THEN "none" ELSE "not_begun"
           had == account # "none"
           r == [accountCall[c] EXCEPT !.pc = stage, !.had = had, !.answer = told]
<1>3. stage \in Stages /\ told \in Answers
    BY DEF Stages, Answers
<1>4. had \in BOOLEAN
    OBVIOUS
<1>5. accountCall' = [accountCall EXCEPT ![c] = r]
    BY <1>2
<1>6. r \in Signing
  <2> HIDE DEF stage, told, had
  <2> QED
    BY <1>1, <1>3, <1>4 DEF Signing
<1>7. r.pc = stage /\ r.wish = accountCall[c].wish /\ r.had = had /\ r.answer = told
  <2> HIDE DEF stage, told, had
  <2> QED
    BY <1>1 DEF Signing
<1>8. CallIs(c, stage, had, told)
  <2> HIDE DEF r, stage, told, had
  <2> QED
    BY <1>5, <1>6, <1>7 DEF CallIs, AccountTypes
<1>9. login' = [login EXCEPT ![c] = "open"]
    BY DEF Account!StartLogin
<1> QED
    BY <1>8, <1>9

LEMMA KeyCall ==
    ASSUME AccountTypes, NEW c \in Callers, Account!LoginKey(c)
    PROVE  \/ account' = "key" /\ CallIs(c, "reads", TRUE, accountCall[c].answer)
           \/ UNCHANGED account /\ Account!Answer(c, "failed_key")
<1> SUFFICES ASSUME ~(UNCHANGED account /\ Account!Answer(c, "failed_key"))
             PROVE  account' = "key" /\ CallIs(c, "reads", TRUE, accountCall[c].answer)
    OBVIOUS
<1>1. accountCall[c] \in Signing
    BY DEF AccountTypes
<1> DEFINE r == [accountCall[c] EXCEPT !.pc = "reads", !.had = TRUE]
<1>2. accountCall' = [accountCall EXCEPT ![c] = r] /\ account' = "key"
    BY DEF Account!LoginKey
<1>3. r \in Signing
    BY <1>1 DEF Signing, Stages
<1>4. r.pc = "reads" /\ r.wish = accountCall[c].wish /\ r.had = TRUE /\ r.answer = accountCall[c].answer
    BY <1>1 DEF Signing
<1> HIDE DEF r
<1> QED
    BY <1>2, <1>3, <1>4 DEF CallIs, AccountTypes

LEMMA ReadCall ==
    ASSUME AccountTypes, NEW c \in Callers, Account!ReadAccount(c)
    PROVE  /\ accountCall[c].pc = "reads" /\ UNCHANGED <<account, login, notes, results>>
           /\ \/ CallIs(c, "done", accountCall[c].had, "signed_in") /\ account # "none"
              \/ CallIs(c, "done", accountCall[c].had, "signed_out")
              \/ CallIs(c, "done", accountCall[c].had, "unavailable")
              \/ CallIs(c, "waits", accountCall[c].had, accountCall[c].answer)
              \/ CallIs(c, "cancels", accountCall[c].had, accountCall[c].answer)
<1>1. CASE \E told \in {"signed_in", "signed_out", "unavailable"} :
              Account!Answer(c, told) /\ (told = "signed_in" => account # "none")
    BY <1>1, AnswerCall DEF Account!ReadAccount, Answers
<1>2. CASE \E to \in {"waits", "cancels"} : accountCall' = [accountCall EXCEPT ![c].pc = to]
    BY <1>2, GotoCall DEF Account!ReadAccount, Stages
<1> QED
    BY <1>1, <1>2 DEF Account!ReadAccount

LEMMA TakeCall ==
    ASSUME AccountTypes, NEW c \in Callers, Account!TakeResult(c)
    PROVE  /\ accountCall[c].pc = "waits" /\ results' \subseteq results /\ UNCHANGED <<account, login, notes>>
           /\ \/ /\ CallIs(c, "done", accountCall[c].had, "failed")
                 /\ \E r \in results : r.of = c /\ ~r.success
              \/ CallIs(c, "reads", accountCall[c].had, accountCall[c].answer)
<1>1. CASE \E r \in Account!OwnResult(c) : ~r.success
    BY <1>1, AnswerCall DEF Account!TakeResult, Account!OwnResult, Answers
<1>2. CASE ~\E r \in Account!OwnResult(c) : ~r.success
    BY <1>2, GotoCall DEF Account!TakeResult, Account!OwnResult, Stages
<1> QED
    BY <1>1, <1>2

LEMMA CancelCall ==
    ASSUME AccountTypes, NEW c \in Callers, Account!Cancel(c)
    PROVE  /\ accountCall[c].pc = "cancels" /\ UNCHANGED <<account, notes, results>>
           /\ \/ /\ CallIs(c, "done", accountCall[c].had, "timed_out") /\ login'[c] # "open"
                 /\ login' \in [Callers -> {"no", "open", "succeeded", "failed", "cancelled"}]
                 /\ \A d \in Callers : d # c \/ login[d] # "open" => login'[d] = login[d]
              \/ CallIs(c, "done", accountCall[c].had, "timed_out_alone") /\ UNCHANGED login
<1>1. CASE login' = Account!Cancelled(c) /\ Account!Answer(c, "timed_out")
  <2>1. CallIs(c, "done", accountCall[c].had, "timed_out")
    BY <1>1, AnswerCall DEF Answers
  <2> QED
    BY <1>1, <2>1 DEF Account!Cancel, Account!Cancelled, AccountTypes
<1>2. CASE UNCHANGED login /\ Account!Answer(c, "timed_out_alone")
    BY <1>2, AnswerCall DEF Account!Cancel, Answers
<1> QED
    BY <1>1, <1>2 DEF Account!Cancel

\* News stay true while a login that failed has failed, and no news come.
LEMMA NewsStay ==
    ASSUME AccountTypes, NewsAreTrue, \A c \in Callers : login[c] = "failed" => login'[c] = "failed",
           notes' = notes, results' \subseteq results
    PROVE  NewsAreTrue'
<1>1. \A i \in 1 .. Len(notes) : notes[i].of \in Callers
  <2>1. \A i \in 1 .. Len(notes) : notes[i] \in Notes
    BY DEF AccountTypes
  <2> QED
    BY <2>1 DEF Notes
<1>2. \A r \in results : r.of \in Callers
    BY DEF AccountTypes, Notes
<1> QED
    BY <1>1, <1>2 DEF NewsAreTrue

\* What a step leaves of the logins and of the callers.
AccountKeeps ==
    /\ login' \in [Callers -> {"no", "open", "succeeded", "failed", "cancelled"}]
    /\ accountCall' \in [Callers -> Signing]
    /\ \A c \in Callers :
         /\ login[c] # "open" /\ accountCall[c].pc # "idle" => login'[c] = login[c]
         /\ accountCall[c].pc # "idle" => accountCall'[c].pc # "idle"
         /\ accountCall'[c].wish = accountCall[c].wish

\* It leaves who came by an account, and with it what the callers were told before.
LEMMA AccountLeaves ==
    ASSUME AccountInv, AccountKeeps
    PROVE  /\ \A c \in Callers : login[c] = "failed" => login'[c] = "failed"
           /\ \A c \in Callers : CameBy(c) => CameBy(c)'
           /\ \A c \in Callers : login[c] # "no" => accountCall[c].pc # "idle"
           /\ \A c \in Callers : accountCall[c].answer # "none" => accountCall[c].pc = "done"
<1>1. \A c \in Callers : login[c] # "no" => accountCall[c].pc # "idle"
    BY DEF AccountInv, BeginsOnce
<1> QED
    BY <1>1 DEF AccountInv, BeginsOnce, AccountKeeps, CameBy

LEMMA AccountStays ==
    ASSUME AccountInv, Account!Next
    PROVE  AccountInv'
<1> DEFINE Rest == (BeginsOnce /\ AccountCame /\ Account!LoginIsItsOwn)'
<1>0. AccountTypes /\ BeginsOnce /\ NewsAreTrue /\ AccountCame /\ Account!LoginIsItsOwn
    BY DEF AccountInv
<1>c. /\ \A c \in Callers : accountCall[c] \in Signing /\ accountCall[c].had \in BOOLEAN
      /\ \A r \in results : r \in Notes
      /\ login \in [Callers -> {"no", "open", "succeeded", "failed", "cancelled"}]
    BY <1>0 DEF AccountTypes, Signing
\* Who answers nobody yet, and moves on, disturbs nothing.
<1>1. ASSUME AccountKeeps, UNCHANGED <<account, login>>, NEW c \in Callers,
             accountCall[c].pc \in {"waits", "reads", "cancels"}, NEW stage \in {"waits", "reads", "cancels"},
             CallIs(c, stage, accountCall[c].had, accountCall[c].answer)
      PROVE  Rest
  <2> USE <1>0, <1>c, <1>1, AccountLeaves DEF CallIs
  <2>1. BeginsOnce'
    BY DEF BeginsOnce
  <2>2. AccountCame'
    BY DEF AccountCame
  <2>3. Account!LoginIsItsOwn'
    BY DEF Account!LoginIsItsOwn, CameBy
  <2> QED
    BY <2>1, <2>2, <2>3
\* Nor does who answers what is true.
<1>2. ASSUME AccountKeeps, UNCHANGED account \/ account' = "none", NEW c \in Callers, NEW told \in Answers, told # "none",
             accountCall[c].pc # "done", CallIs(c, "done", accountCall[c].had, told),
             \A d \in Callers : login[d] # "open" => login'[d] = login[d],
             told = "failed" => login[c] = "failed",
             told = "timed_out" => login'[c] # "open",
             told = "signed_in" /\ ~accountCall[c].had => \E d \in Callers : CameBy(d)
      PROVE  Rest
  <2> USE <1>0, <1>c, <1>2, AccountLeaves DEF CallIs
  <2>1. BeginsOnce'
    BY DEF BeginsOnce
  <2>2. AccountCame'
    BY DEF AccountCame
  <2>3. Account!LoginIsItsOwn'
    BY DEF Account!LoginIsItsOwn, CameBy, AccountKeeps
  <2> QED
    BY <2>1, <2>2, <2>3
\* Nor does Codex, or the pump.
<1>3. ASSUME AccountKeeps, UNCHANGED accountCall,
             \A d \in Callers : login[d] = "no" => login'[d] = "no",
             UNCHANGED account \/ \E d \in Callers : login'[d] = "succeeded"
      PROVE  Rest
  <2> USE <1>0, <1>c, <1>3, AccountLeaves
  <2>1. BeginsOnce'
    BY DEF BeginsOnce
  <2>2. AccountCame'
    BY DEF AccountCame, CameBy
  <2>3. Account!LoginIsItsOwn'
    BY DEF Account!LoginIsItsOwn, CameBy, AccountKeeps
  <2> QED
    BY <2>1, <2>2, <2>3
<1>4. ASSUME NEW c \in Callers, Account!StartLogin(c) PROVE AccountInv'
  <2>0. /\ accountCall[c].pc = "idle" /\ login[c] = "no" /\ accountCall[c].answer = "none"
        /\ UNCHANGED <<account, notes, results>>
    BY <1>0, <1>4 DEF Account!StartLogin, BeginsOnce
  <2>1. CASE Account!Answer(c, "not_begun") /\ UNCHANGED login
    <3>1. CallIs(c, "done", accountCall[c].had, "not_begun")
      BY <1>0, <2>1, AnswerCall DEF Answers
    <3>2. AccountKeeps
      BY <1>0, <2>0, <2>1, <3>1 DEF CallIs, AccountKeeps, AccountTypes
    <3>3. Rest
      BY <1>2, <2>0, <2>1, <3>1, <3>2 DEF Answers
    <3>4. NewsAreTrue'
      BY <1>0, <2>0, <2>1, NewsStay
    <3> QED
      BY <1>0, <2>0, <2>1, <3>2, <3>3, <3>4 DEF AccountInv, AccountTypes, AccountKeeps
  <2>2. ASSUME login' = [login EXCEPT ![c] = "open"], NEW stage \in {"waits", "done"}, NEW told \in {"none", "not_begun"},
               CallIs(c, stage, account # "none", told), stage = "waits" => told = "none"
        PROVE  AccountInv'
    <3>1. AccountKeeps
      BY <1>0, <2>0, <2>2 DEF CallIs, AccountKeeps, AccountTypes
    <3>2. NewsAreTrue'
      BY <1>0, <2>0, <3>1, AccountLeaves, NewsStay
    <3>3. BeginsOnce'
      BY <1>0, <2>0, <2>2 DEF BeginsOnce, CallIs, AccountTypes
    <3>4. AccountCame'
      <4>1. \A d \in Callers : CameBy(d) => CameBy(d)'
        BY <3>1, AccountLeaves
      <4>2. account # "none" => accountCall'[c].had
        BY <2>2 DEF CallIs
      <4> QED
        BY <1>0, <2>0, <2>2, <4>1, <4>2 DEF AccountCame, CallIs
    <3>5. Account!LoginIsItsOwn'
      <4>1. \A d \in Callers : CameBy(d) => CameBy(d)'
        BY <3>1, AccountLeaves
      <4>2. accountCall'[c].answer \in {"none", "not_begun"}
        BY <2>2 DEF CallIs
      <4>3. \A d \in Callers \ {c} : accountCall'[d] = accountCall[d] /\ login'[d] = login[d]
        BY <1>0, <2>2 DEF CallIs, AccountTypes
      <4> QED
        BY <1>0, <4>1, <4>2, <4>3 DEF Account!LoginIsItsOwn, CameBy
    <3> QED
      BY <1>0, <2>0, <3>1, <3>2, <3>3, <3>4, <3>5 DEF AccountInv, AccountTypes, AccountKeeps
  <2> QED
    BY <1>0, <1>4, <2>1, <2>2, LoginCall
<1>5. ASSUME NEW c \in Callers, Account!TakeResult(c) PROVE AccountInv'
  <2>1. /\ accountCall[c].pc = "waits" /\ results' \subseteq results /\ UNCHANGED <<account, login, notes>>
        /\ \/ /\ CallIs(c, "done", accountCall[c].had, "failed")
              /\ \E r \in results : r.of = c /\ ~r.success
           \/ CallIs(c, "reads", accountCall[c].had, accountCall[c].answer)
    BY <1>0, <1>5, TakeCall
  <2>2. AccountKeeps
    BY <1>0, <2>1 DEF CallIs, AccountKeeps, AccountTypes
  <2>3. NewsAreTrue'
    BY <1>0, <2>1, NewsStay
  <2>4. ASSUME CallIs(c, "done", accountCall[c].had, "failed"), \E r \in results : r.of = c /\ ~r.success
        PROVE  Rest
    <3>1. login[c] = "failed"
      BY <1>0, <2>4 DEF NewsAreTrue
    <3> QED
      BY <1>2, <2>1, <2>2, <2>4, <3>1 DEF Answers
  <2>5. ASSUME CallIs(c, "reads", accountCall[c].had, accountCall[c].answer)
        PROVE  Rest
    BY <1>1, <2>1, <2>2, <2>5
  <2> QED
    BY <1>0, <2>1, <2>2, <2>3, <2>4, <2>5 DEF AccountInv, AccountTypes, AccountKeeps
<1>6. ASSUME NEW c \in Callers, Account!ReadAccount(c) PROVE AccountInv'
  <2>1. /\ accountCall[c].pc = "reads" /\ UNCHANGED <<account, login, notes, results>>
        /\ \/ CallIs(c, "done", accountCall[c].had, "signed_in") /\ account # "none"
           \/ CallIs(c, "done", accountCall[c].had, "signed_out")
           \/ CallIs(c, "done", accountCall[c].had, "unavailable")
           \/ CallIs(c, "waits", accountCall[c].had, accountCall[c].answer)
           \/ CallIs(c, "cancels", accountCall[c].had, accountCall[c].answer)
    BY <1>0, <1>6, ReadCall DEF Account!ReadAccount
  <2>2. AccountKeeps
    BY <1>0, <2>1 DEF CallIs, AccountKeeps, AccountTypes
  <2>3. NewsAreTrue'
    BY <1>0, <2>1, NewsStay
  <2>4. ASSUME NEW told \in {"signed_in", "signed_out", "unavailable"}, CallIs(c, "done", accountCall[c].had, told),
               told = "signed_in" => account # "none"
        PROVE  Rest
    <3>1. told = "signed_in" /\ ~accountCall[c].had => \E d \in Callers : CameBy(d)
      BY <1>0, <2>1, <2>4 DEF AccountCame
    <3>2. told \in Answers /\ told # "none" /\ told # "failed" /\ told # "timed_out"
      BY <2>4 DEF Answers
    <3>3. accountCall[c].pc # "done" /\ UNCHANGED <<account, login>>
      BY <2>1
    <3> QED
      BY <1>2, <2>2, <2>4, <3>1, <3>2, <3>3
  <2>5. ASSUME NEW stage \in {"waits", "cancels"}, CallIs(c, stage, accountCall[c].had, accountCall[c].answer)
        PROVE  Rest
    <3>1. stage \in {"waits", "reads", "cancels"} /\ accountCall[c].pc \in {"waits", "reads", "cancels"}
      BY <2>1, <2>5
    <3>2. UNCHANGED <<account, login>>
      BY <2>1
    <3> QED
      BY <1>1, <2>2, <2>5, <3>1, <3>2
  <2>6. Rest
    BY <2>1, <2>4, <2>5
  <2> QED
    BY <1>0, <2>1, <2>2, <2>3, <2>6 DEF AccountInv, AccountTypes, AccountKeeps
<1>7. ASSUME NEW c \in Callers, Account!Cancel(c) PROVE AccountInv'
  <2>1. /\ accountCall[c].pc = "cancels" /\ UNCHANGED <<account, notes, results>>
        /\ login' \in [Callers -> {"no", "open", "succeeded", "failed", "cancelled"}]
        /\ \A d \in Callers : login[d] # "open" => login'[d] = login[d]
    BY <1>0, <1>7, CancelCall DEF AccountTypes
  <2>2. \E told \in {"timed_out", "timed_out_alone"} :
           CallIs(c, "done", accountCall[c].had, told) /\ (told = "timed_out" => login'[c] # "open")
    BY <1>0, <1>7, CancelCall
  <2>3. AccountKeeps
    BY <1>0, <2>1, <2>2 DEF CallIs, AccountKeeps
  <2>4. NewsAreTrue'
    BY <1>0, <2>1, NewsStay
  <2>5. Rest
    BY <1>2, <2>1, <2>2, <2>3 DEF Answers
  <2> QED
    BY <1>0, <2>1, <2>3, <2>4, <2>5 DEF AccountInv, AccountTypes, AccountKeeps
<1>8. ASSUME NEW c \in Callers, Account!LoginKey(c) PROVE AccountInv'
  <2>0. /\ accountCall[c].pc = "idle" /\ accountCall[c].wish = "key" /\ accountCall[c].answer = "none"
        /\ UNCHANGED <<login, notes, results>>
    BY <1>0, <1>8 DEF Account!LoginKey, BeginsOnce
  <2>1. NewsAreTrue'
    BY <1>0, <2>0, NewsStay
  <2>2. CASE UNCHANGED account /\ Account!Answer(c, "failed_key")
    <3>1. CallIs(c, "done", accountCall[c].had, "failed_key")
      BY <1>0, <2>2, AnswerCall DEF Answers
    <3>2. AccountKeeps
      BY <1>0, <2>0, <3>1 DEF CallIs, AccountKeeps, AccountTypes
    <3>3. Rest
      BY <1>2, <2>0, <2>2, <3>1, <3>2 DEF Answers
    <3> QED
      BY <1>0, <2>0, <2>1, <3>2, <3>3 DEF AccountInv, AccountTypes, AccountKeeps
  <2>3. CASE account' = "key" /\ CallIs(c, "reads", TRUE, accountCall[c].answer)
    <3>1. AccountKeeps
      BY <1>0, <2>0, <2>3 DEF CallIs, AccountKeeps, AccountTypes
    <3>2. CameBy(c)'
      BY <2>0, <2>3 DEF CallIs, CameBy
    <3>3. BeginsOnce'
      BY <1>0, <2>0, <2>3 DEF BeginsOnce, CallIs
    <3>4. AccountCame'
      BY <3>2 DEF AccountCame
    <3>5. Account!LoginIsItsOwn'
      BY <1>0, <2>0, <2>3, <3>2 DEF Account!LoginIsItsOwn, CallIs, CameBy
    <3> QED
      BY <1>0, <2>0, <2>1, <3>1, <3>3, <3>4, <3>5 DEF AccountInv, AccountTypes, AccountKeeps
  <2> QED
    BY <1>0, <1>8, <2>2, <2>3, KeyCall
<1>9. ASSUME NEW c \in Callers, Account!Logout(c) PROVE AccountInv'
  <2>0. /\ accountCall[c].pc = "idle" /\ account' = "none" /\ Account!Answer(c, "signed_out")
        /\ UNCHANGED <<login, notes, results>>
    BY <1>9 DEF Account!Logout
  <2>1. CallIs(c, "done", accountCall[c].had, "signed_out")
    BY <1>0, <2>0, AnswerCall DEF Answers
  <2>2. AccountKeeps
    BY <1>0, <2>0, <2>1 DEF CallIs, AccountKeeps, AccountTypes
  <2>3. NewsAreTrue'
    BY <1>0, <2>0, NewsStay
  <2>4. Rest
    BY <1>2, <2>0, <2>1, <2>2 DEF Answers
  <2> QED
    BY <1>0, <2>0, <2>2, <2>3, <2>4 DEF AccountInv, AccountTypes, AccountKeeps
<1>10. ASSUME NEW c \in Callers, NEW success \in BOOLEAN, Account!EndLogin(c, success) PROVE AccountInv'
  <2>0. /\ login[c] = "open" /\ UNCHANGED <<results, accountCall>>
        /\ login' = [login EXCEPT ![c] = IF success THEN "succeeded" ELSE "failed"]
        /\ account' = IF success THEN "chatgpt" ELSE account
        /\ notes' = Append(notes, [of |-> c, success |-> success])
    BY <1>10 DEF Account!EndLogin, Account!Note
  <2>1. AccountKeeps
    BY <1>0, <1>c, <2>0 DEF AccountKeeps, AccountTypes
  <2>2. notes' \in Seq(Notes)
    <3>1. [of |-> c, success |-> success] \in Notes
      BY DEF Notes
    <3> QED
      BY <1>0, <2>0, <3>1 DEF AccountTypes
  <2>3. NewsAreTrue'
    <3> DEFINE n == [of |-> c, success |-> success]
    <3>1. \A d \in Callers : login[d] = "failed" => login'[d] = "failed"
      BY <2>1, AccountLeaves
    <3>2. \A r \in results' : ~r.success => login'[r.of] = "failed"
      BY <1>0, <1>c, <2>0, <3>1 DEF NewsAreTrue, Notes
    <3>3. n.of = c /\ (~n.success => login'[c] = "failed")
      BY <1>c, <2>0
    <3>4. \A i \in 1 .. Len(notes) : notes[i] \in Notes
      BY <1>0 DEF AccountTypes
    <3>5. \A i \in 1 .. Len(notes) : ~notes[i].success => login'[notes[i].of] = "failed"
      BY <1>0, <3>1, <3>4 DEF NewsAreTrue, Notes
    <3>6. \A i \in 1 .. Len(notes') : \/ i \in 1 .. Len(notes) /\ notes'[i] = notes[i]
                                      \/ notes'[i] = n
      <4> HIDE DEF n
      <4> QED
        BY <1>0, <2>0 DEF AccountTypes, n
    <3> HIDE DEF n
    <3>7. \A i \in 1 .. Len(notes') : ~notes'[i].success => login'[notes'[i].of] = "failed"
      BY <3>3, <3>5, <3>6
    <3> QED
      BY <3>2, <3>7 DEF NewsAreTrue
  <2>4. Rest
    BY <1>3, <1>c, <2>0, <2>1
  <2> QED
    BY <1>0, <2>0, <2>1, <2>2, <2>3, <2>4 DEF AccountInv, AccountTypes, AccountKeeps
<1>11. CASE Account!HearLogin
  <2>0. /\ notes # <<>> /\ notes' = Tail(notes) /\ results' = results \cup {Head(notes)}
        /\ UNCHANGED <<account, login, accountCall, losses>>
    BY <1>11 DEF Account!HearLogin
  <2>1. AccountKeeps
    BY <1>0, <2>0 DEF AccountKeeps, AccountTypes
  <2>2. /\ notes' \in Seq(Notes) /\ Head(notes) \in Notes /\ Len(notes) > 0 /\ Head(notes) = notes[1]
        /\ Len(notes') = Len(notes) - 1 /\ \A i \in 1 .. Len(notes') : notes'[i] = notes[i + 1]
    BY <1>0, <2>0 DEF AccountTypes
  <2>3. NewsAreTrue'
    <3>1. Len(notes) \in Nat
      BY <1>0 DEF AccountTypes
    <3>2. ~notes[1].success => login[notes[1].of] = "failed"
      BY <1>0, <2>2, <3>1 DEF NewsAreTrue
    <3>3. \A i \in 1 .. Len(notes') : ~notes'[i].success => login[notes'[i].of] = "failed"
      BY <1>0, <2>2, <3>1 DEF NewsAreTrue
    <3> QED
      BY <1>0, <2>0, <2>2, <3>2, <3>3 DEF NewsAreTrue
  <2>4. Rest
    BY <1>3, <1>0, <2>0, <2>1
  <2> QED
    BY <1>0, <2>0, <2>1, <2>2, <2>3, <2>4 DEF AccountInv, AccountTypes, AccountKeeps
<1>12. CASE Account!LoseProcess
  <2>0. /\ login' = [c \in Callers |-> IF login[c] = "open" THEN "failed" ELSE login[c]]
        /\ UNCHANGED <<account, notes, results, accountCall>>
    BY <1>12 DEF Account!LoseProcess
  <2>1. AccountKeeps
    BY <1>0, <1>c, <2>0 DEF AccountKeeps, AccountTypes
  <2>2. NewsAreTrue'
    BY <1>0, <2>0, <2>1, NewsStay, AccountLeaves
  <2>3. Rest
    BY <1>3, <1>c, <2>0, <2>1
  <2> QED
    BY <1>0, <2>0, <2>1, <2>2, <2>3 DEF AccountInv, AccountTypes, AccountKeeps
<1> QED
    BY <1>4, <1>5, <1>6, <1>7, <1>8, <1>9, <1>10, <1>11, <1>12 DEF Account!Next

\* A window is told of its own login: that it failed only if it did, that it was given
\* up only if it cannot sign in any more, that it is signed in, where no account was,
\* only if a login or a key succeeded (wait_for_login, login_results).
THEOREM LoginsStayApart == Spec => []LoginIsItsOwn
<1> DEFINE I == part = "Account" => AccountInv
<1>1. Init => I
    BY AccountBegins DEF Init
<1>2. I /\ [Next]_vars => I'
  <2> SUFFICES ASSUME I, [Next]_vars, part = "Account" PROVE AccountInv'
    BY PartStays
  <2>1. AccountInv
    OBVIOUS
  <2>2. CASE Account!Next
    BY <2>1, <2>2, AccountStays
  <2>3. CASE UNCHANGED Account!vars
    BY <2>1, <2>3 DEF Account!vars, AccountInv, AccountTypes, BeginsOnce, NewsAreTrue, AccountCame, CameBy, Account!LoginIsItsOwn
  <2> QED
    BY <2>2, <2>3, AccountMoves
<1>3. I => LoginIsItsOwn
    BY DEF AccountInv, LoginIsItsOwn
<1> QED
    BY <1>1, <1>2, <1>3, PTL DEF Spec

-----------------------------------------------------------------------------
(* Settings *)

IsSaving(r) ==
    /\ r = [pc |-> r.pc, patch |-> r.patch, base |-> r.base, before |-> r.before, outcome |-> r.outcome]
    /\ IsPolicy(r.patch) /\ IsPolicy(r.base)
SettingsTypes ==
    /\ running \in BOOLEAN
    /\ call = [c \in Calls |-> call[c]] /\ \A c \in Calls : IsSaving(call[c])
    /\ IsPolicy(memory) /\ IsPolicy(file) /\ IsPolicy(durable) /\ IsPolicy(expected)

\* Who replaces the file holds the lock, and began with the policy that runs.
OneSaves ==
    \A c \in Calls : call[c].pc \in {"replaces", "finishes"} => running /\ lock = c /\ call[c].base = memory

\* The file, now and after a power loss, is what was told, or in doubt; the file of a
\* save that succeeded is not the one of before.
FileIsKnown ==
    /\ {file, durable} \subseteq {expected} \cup doubt
    /\ ~running => durable = file
    /\ \A c \in Calls : call[c].pc = "finishes" /\ call[c].outcome = "ok" => {file, durable} \subseteq doubt

SettingsInv == SettingsTypes /\ OneSaves /\ FileIsKnown /\ Settings!PolicyIsAsTold

LEMMA LoadedIsPolicy ==
    ASSUME NEW bytes, IsPolicy(bytes)
    PROVE  IsPolicy(Settings!Loaded(bytes))
BY DEF IsPolicy, Settings!Loaded, Settings!DefaultSettings

LEMMA CandidateIsPolicy ==
    ASSUME SettingsTypes, NEW c \in Calls
    PROVE  IsPolicy(Settings!Candidate(c))
BY DEF SettingsTypes, IsSaving, IsPolicy, Settings!Candidate, Settings!Patched

LEMMA SavingMoves ==
    ASSUME NEW r, IsSaving(r), NEW stage, NEW policy, IsPolicy(policy), NEW bytes, NEW outcome
    PROVE  /\ IsSaving([r EXCEPT !.pc = stage])
           /\ IsSaving([r EXCEPT !.pc = stage, !.outcome = outcome])
           /\ IsSaving([r EXCEPT !.pc = stage, !.base = policy, !.before = bytes])
<1>1. ASSUME NEW s, IsSaving(s)
      PROVE  /\ IsSaving([s EXCEPT !.pc = stage]) /\ IsSaving([s EXCEPT !.outcome = outcome])
             /\ IsSaving([s EXCEPT !.base = policy]) /\ IsSaving([s EXCEPT !.before = bytes])
  <2>1. [s EXCEPT !.pc = stage]
          = [pc |-> stage, patch |-> s.patch, base |-> s.base, before |-> s.before, outcome |-> s.outcome]
    BY <1>1 DEF IsSaving
  <2>2. [s EXCEPT !.outcome = outcome]
          = [pc |-> s.pc, patch |-> s.patch, base |-> s.base, before |-> s.before, outcome |-> outcome]
    BY <1>1 DEF IsSaving
  <2>3. [s EXCEPT !.base = policy]
          = [pc |-> s.pc, patch |-> s.patch, base |-> policy, before |-> s.before, outcome |-> s.outcome]
    BY <1>1 DEF IsSaving
  <2>4. [s EXCEPT !.before = bytes]
          = [pc |-> s.pc, patch |-> s.patch, base |-> s.base, before |-> bytes, outcome |-> s.outcome]
    BY <1>1 DEF IsSaving
  <2> QED
    BY <1>1, <2>1, <2>2, <2>3, <2>4 DEF IsSaving
<1>2. [r EXCEPT !.pc = stage, !.outcome = outcome] = [[r EXCEPT !.pc = stage] EXCEPT !.outcome = outcome]
    OBVIOUS
<1>3. [r EXCEPT !.pc = stage, !.base = policy, !.before = bytes]
        = [[[r EXCEPT !.pc = stage] EXCEPT !.base = policy] EXCEPT !.before = bytes]
    OBVIOUS
<1> QED
    BY <1>1, <1>2, <1>3

LEMMA SettingsBegin ==
    ASSUME Settings!Init
    PROVE  SettingsInv
<1> USE DEF Settings!Init
<1>1. PICK request \in Requests : call = [c \in Calls |-> Settings!Asked(request[c])]
    OBVIOUS
<1>2. \A c \in Calls : IsPolicy(request[c])
    BY PoliciesAreRead
<1>3. IsPolicy(Settings!DefaultSettings) /\ IsPolicy(Settings!NoFile)
    BY DEF IsPolicy, Settings!DefaultSettings, Settings!NoFile
<1>4. \A c \in Calls : IsSaving(call[c]) /\ call[c].pc = "asked"
    BY <1>1, <1>2, <1>3 DEF Settings!Asked, IsSaving
<1>5. SettingsTypes
    BY <1>1, <1>3, <1>4, LoadedIsPolicy DEF SettingsTypes
<1> QED
    BY <1>4, <1>5 DEF SettingsInv, OneSaves, FileIsKnown, Settings!PolicyIsAsTold

LEMMA SettingsStay ==
    ASSUME SettingsInv, Settings!Next
    PROVE  SettingsInv'
<1>0. SettingsTypes /\ OneSaves /\ FileIsKnown /\ Settings!PolicyIsAsTold
    BY DEF SettingsInv
<1>c. /\ \A c \in Calls : c # "free" /\ IsSaving(call[c]) /\ IsPolicy(Settings!Candidate(c))
      /\ IsPolicy(memory) /\ IsPolicy(file) /\ IsPolicy(durable) /\ IsPolicy(expected)
    BY <1>0, CallersAreNamed, CandidateIsPolicy DEF SettingsTypes
<1>1. ASSUME NEW c \in Calls, Settings!Lock(c) PROVE SettingsInv'
  <2> USE <1>0, <1>c, <1>1 DEF Settings!Lock, Settings!IsFree
  <2>1. SettingsTypes'
    <3>1. PICK r : r = call'[c] /\ call' = [call EXCEPT ![c] = r] /\ IsSaving(r)
      <4>1. PICK bytes : call' = [call EXCEPT ![c].pc = "replaces", ![c].base = memory, ![c].before = bytes]
        OBVIOUS
      <4> DEFINE r == [call[c] EXCEPT !.pc = "replaces", !.base = memory, !.before = bytes]
      <4>2. IsSaving(r)
        BY SavingMoves
      <4>3. call' = [call EXCEPT ![c] = r]
        BY <4>1
      <4> HIDE DEF r
      <4> QED
        BY <4>2, <4>3 DEF SettingsTypes
    <3> QED
      BY <3>1 DEF SettingsTypes
  <2>2. OneSaves'
    BY DEF OneSaves, SettingsTypes, IsSaving
  <2>3. FileIsKnown'
    BY DEF FileIsKnown, SettingsTypes, IsSaving
  <2> QED
    BY <2>1, <2>2, <2>3 DEF SettingsInv, Settings!PolicyIsAsTold
<1>2. ASSUME NEW c \in Calls, Settings!Replace(c) PROVE SettingsInv'
  <2> USE <1>0, <1>c, <1>2 DEF Settings!Replace
  <2>1. SettingsTypes'
    <3>1. PICK r : r = call'[c] /\ call' = [call EXCEPT ![c] = r] /\ IsSaving(r)
      <4>1. PICK outcome : call' = [call EXCEPT ![c].pc = "finishes", ![c].outcome = outcome]
        OBVIOUS
      <4> DEFINE r == [call[c] EXCEPT !.pc = "finishes", !.outcome = outcome]
      <4>2. IsSaving(r)
        BY SavingMoves
      <4>3. call' = [call EXCEPT ![c] = r]
        BY <4>1
      <4> HIDE DEF r
      <4> QED
        BY <4>2, <4>3 DEF SettingsTypes
    <3> QED
      BY <3>1 DEF SettingsTypes
  <2>2. OneSaves'
    BY DEF OneSaves, SettingsTypes, IsSaving
  <2>3. FileIsKnown'
    BY DEF FileIsKnown, OneSaves, SettingsTypes, IsSaving
  <2> QED
    BY <2>1, <2>2, <2>3 DEF SettingsInv, Settings!PolicyIsAsTold
<1>3. ASSUME NEW c \in Calls, Settings!Saved(c) PROVE SettingsInv'
  <2> USE <1>0, <1>c, <1>3 DEF Settings!Saved, Settings!Answer, Settings!Followed
  <2>1. Settings!PolicyIsAsTold' /\ expected' = Settings!Candidate(c)
    BY DEF Settings!PolicyIsAsTold, OneSaves, Settings!Candidate
  <2>2. SettingsTypes'
    BY <2>1 DEF SettingsTypes, IsSaving
  <2>3. OneSaves'
    BY DEF OneSaves, SettingsTypes, IsSaving
  <2>4. FileIsKnown'
    BY <2>1 DEF FileIsKnown, OneSaves, SettingsTypes, IsSaving
  <2> QED
    BY <2>1, <2>2, <2>3, <2>4 DEF SettingsInv
<1>4. ASSUME NEW c \in Calls, Settings!Classify(c) PROVE SettingsInv'
  <2> USE <1>0, <1>c, <1>4 DEF Settings!Classify, Settings!Answer, Settings!Followed
  <2>0. Settings!Candidate(c) # Settings!Unreadable
    BY DEF IsPolicy, Settings!Unreadable
  <2>1. Settings!PolicyIsAsTold' /\ expected' \in {expected, Settings!Candidate(c)}
    BY DEF Settings!PolicyIsAsTold, OneSaves, Settings!Candidate
  <2>2. SettingsTypes'
    BY <2>1 DEF SettingsTypes, IsSaving, Settings!PolicyIsAsTold, OneSaves
  <2>3. OneSaves'
    BY DEF OneSaves, SettingsTypes, IsSaving
  <2>4. FileIsKnown'
    <3>1. running' = running /\ running
      BY DEF OneSaves
    <3>2. \A d \in Calls : call'[d].pc # "finishes"
      BY DEF OneSaves, SettingsTypes, IsSaving
    <3>3. {file', durable'} \subseteq {expected'} \cup doubt'
      BY <2>0 DEF FileIsKnown, Settings!PolicyIsAsTold, OneSaves, Settings!Candidate
    <3> QED
      BY <3>1, <3>2, <3>3 DEF FileIsKnown
  <2> QED
    BY <2>1, <2>2, <2>3, <2>4 DEF SettingsInv
<1>5. ASSUME NEW bytes \in Edits, Settings!Edit(bytes) PROVE SettingsInv'
  <2>1. IsPolicy(bytes)
    BY PoliciesAreRead
  <2> QED
    BY <1>0, <1>c, <1>5, <2>1 DEF Settings!Edit, SettingsInv, SettingsTypes, OneSaves, FileIsKnown, Settings!PolicyIsAsTold
<1>6. CASE Settings!Stop
  <2> USE <1>0, <1>c, <1>6 DEF Settings!Stop
  <2>1. SettingsTypes'
    <3>1. \A c \in Calls : IsSaving([call[c] EXCEPT !.pc = "done"])
      BY SavingMoves
    <3>2. \A c \in Calls : IsSaving(call'[c])
      BY <3>1
    <3> QED
      BY <3>2 DEF SettingsTypes
  <2>2. \A c \in Calls : call'[c].pc \notin {"replaces", "finishes"}
    BY DEF SettingsTypes, IsSaving
  <2> QED
    BY <2>1, <2>2 DEF SettingsInv, OneSaves, FileIsKnown, Settings!PolicyIsAsTold
<1>7. CASE Settings!Start
  <2>1. IsPolicy(Settings!Loaded(file))
    BY <1>c, LoadedIsPolicy
  <2>2. \A c \in Calls : call[c].pc \notin {"replaces", "finishes"}
    BY <1>0, <1>7 DEF Settings!Start, OneSaves
  <2> QED
    BY <1>0, <1>c, <1>7, <2>1, <2>2 DEF Settings!Start, SettingsInv, SettingsTypes, OneSaves, FileIsKnown, Settings!PolicyIsAsTold
<1> QED
    BY <1>1, <1>2, <1>3, <1>4, <1>5, <1>6, <1>7 DEF Settings!Next

LEMMA StartFinds ==
    ASSUME SettingsInv, Settings!Next
    PROVE  Settings!StartFindsIt
<1> SUFFICES ASSUME ~running, running' PROVE memory' \in {Settings!Loaded(s) : s \in {expected} \cup doubt}
    BY Zenon DEF Settings!StartFindsIt
<1>1. memory' = Settings!Loaded(file)
    BY DEF Settings!Next, Settings!Lock, Settings!IsFree, Settings!Replace, Settings!Saved, Settings!Classify,
           Settings!Answer, Settings!Edit, Settings!Stop, Settings!Start
<1> QED
    BY <1>1 DEF SettingsInv, FileIsKnown
-----------------------------------------------------------------------------
(* Secrets *)

Maps == [{"device", "iroh"} -> Nat]
Keeping == [pc : {"idle", "stores", "renames", "done"}, key : Nat, map : Maps]
SecretsTypes ==
    /\ secretWants \in [Callers -> {"device", "iroh"}]
    /\ secretFile \in Maps /\ secretDurable \in Maps
    /\ secretCall \in [Callers -> Keeping]
    /\ handed \in [{"device", "iroh"} -> SUBSET Nat]
    /\ made \in Nat

\* Who replaces the file holds the lock, and has read what is in it.
OneRenames ==
    \A c \in Callers : secretCall[c].pc = "renames" =>
        secretLock = c /\ secretCall[c].map = [secretFile EXCEPT ![secretWants[c]] = secretCall[c].key]

\* While a key is made for an entry, there is none, and nobody else makes one.
IsMaking(c) == secretCall[c].pc \in {"stores", "renames"}
OneMakes ==
    \A c \in Callers : IsMaking(c) =>
        /\ secretCall[c].key # 0
        /\ secretWants[c] \notin exempt =>
             /\ secretFile[secretWants[c]] = 0
             /\ \A d \in Callers : IsMaking(d) /\ secretWants[d] = secretWants[c] => d = c

KeysAreKeys == \A e \in {"device", "iroh"} : 0 \notin handed[e]

SecretsInv == SecretsTypes /\ OneRenames /\ OneMakes /\ KeysAreKeys /\ Secrets!IdentityStays

LEMMA SecretsBegin ==
    ASSUME Secrets!Init
    PROVE  SecretsInv
<1> USE DEF Secrets!Init, Secrets!Empty, Secrets!Entries, Secrets!Absent
<1>1. secretWants \in [Callers -> {"device", "iroh"}]
    BY WishesAreKnown
<1>2. \A c \in Callers : secretCall[c] = [pc |-> "idle", key |-> 0, map |-> Secrets!Empty]
    BY DEF Secrets!Idle
<1>3. Secrets!Empty \in Maps
    BY DEF Maps
<1>4. secretCall \in [Callers -> Keeping]
    BY <1>2, <1>3 DEF Keeping, Secrets!Idle
<1>5. SecretsTypes
    BY <1>1, <1>3, <1>4 DEF SecretsTypes, Maps
<1> QED
    BY <1>2, <1>5 DEF SecretsInv, OneRenames, OneMakes, IsMaking, KeysAreKeys, Secrets!IdentityStays

LEMMA SecretsStay ==
    ASSUME SecretsInv, Secrets!Next
    PROVE  SecretsInv'
<1> USE DEF Secrets!Entries, Secrets!Absent
<1>0. SecretsTypes /\ OneRenames /\ OneMakes /\ KeysAreKeys /\ Secrets!IdentityStays
    BY DEF SecretsInv
<1>c. /\ \A c \in Callers : c # "free" /\ secretCall[c] \in Keeping /\ secretWants[c] \in {"device", "iroh"}
      /\ \A e \in {"device", "iroh"} : secretFile[e] \in Nat /\ handed[e] \subseteq Nat
    BY <1>0, CallersAreNamed DEF SecretsTypes, Maps
<1>1. ASSUME NEW c \in Callers, Secrets!Get(c) PROVE SecretsInv'
  <2> USE <1>0, <1>c, <1>1 DEF Secrets!Get, Secrets!ReadMap, Secrets!CanLock, Secrets!Making, Secrets!HandOut, Secrets!Finish
  <2>1. SecretsTypes'
    BY DEF SecretsTypes, Keeping
  <2>2. OneRenames'
    <3>1. secretCall'[c].pc # "renames" /\ \A d \in Callers \ {c} : secretCall'[d] = secretCall[d]
      BY DEF SecretsTypes, Keeping
    <3>2. UNCHANGED <<secretWants, secretFile, secretLock>>
      OBVIOUS
    <3> QED
      BY <3>1, <3>2 DEF OneRenames
  <2>3. OneMakes'
    BY DEF OneMakes, IsMaking, SecretsTypes, Keeping
  <2>4. KeysAreKeys'
    BY DEF KeysAreKeys, SecretsTypes, Maps
  <2>5. Secrets!IdentityStays'
    BY DEF Secrets!IdentityStays, SecretsTypes, Maps
  <2> QED
    BY <2>1, <2>2, <2>3, <2>4, <2>5 DEF SecretsInv
<1>2. ASSUME NEW c \in Callers, Secrets!Store(c) PROVE SecretsInv'
  <2> USE <1>0, <1>c, <1>2 DEF Secrets!Store, Secrets!ReadMap, Secrets!CanLock, Secrets!Finish
  <2>1. SecretsTypes'
    BY DEF SecretsTypes, Keeping, Maps
  <2>2. OneRenames'
    <3>1. \A d \in Callers \ {c} : secretCall'[d] = secretCall[d] /\ secretCall[d].pc # "renames"
      BY DEF OneRenames, SecretsTypes
    <3>2. CASE access = "open"
      <4> DEFINE map == [secretFile EXCEPT ![secretWants[c]] = secretCall[c].key]
      <4>1. secretCall' = [secretCall EXCEPT ![c].pc = "renames", ![c].map = map] /\ secretLock' = c
        BY <3>2
      <4> HIDE DEF map
      <4>2. secretCall'[c].map = map /\ secretCall'[c].key = secretCall[c].key
        BY <4>1 DEF SecretsTypes, Keeping
      <4> QED
        BY <3>1, <4>1, <4>2 DEF OneRenames, map
    <3>3. CASE access # "open"
      <4>0. secretCall' = [secretCall EXCEPT ![c].pc = "done"]
        BY <3>3
      <4>1. secretCall'[c].pc # "renames"
        BY <4>0 DEF SecretsTypes, Keeping
      <4> QED
        BY <3>1, <4>1 DEF OneRenames
    <3> QED
      BY <3>2, <3>3
  <2>3. OneMakes'
    BY SMTT(30) DEF OneMakes, IsMaking, SecretsTypes, Keeping
  <2> QED
    BY <2>1, <2>2, <2>3 DEF SecretsInv, KeysAreKeys, Secrets!IdentityStays
<1>3. ASSUME NEW c \in Callers, Secrets!Rename(c) PROVE SecretsInv'
  <2> USE <1>0, <1>c, <1>3 DEF Secrets!Rename, Secrets!HandOut, Secrets!Finish
  <2>1. SecretsTypes'
    BY DEF SecretsTypes, Keeping, Maps
  <2>2. OneRenames'
    BY DEF OneRenames, SecretsTypes, Keeping
  <2>0. /\ secretFile' = [secretFile EXCEPT ![secretWants[c]] = secretCall[c].key]
        /\ secretCall[c].key \in Nat
    BY DEF OneRenames, Keeping
  <2>3. OneMakes'
    <3>1. ~IsMaking(c)' /\ \A d \in Callers \ {c} : secretCall'[d] = secretCall[d]
      BY DEF IsMaking, SecretsTypes, Keeping
    <3>2. \A d \in Callers \ {c} : IsMaking(d) /\ secretWants[d] \notin exempt => secretWants[d] # secretWants[c]
      BY DEF OneMakes, IsMaking
    <3>3. \A e \in {"device", "iroh"} \ {secretWants[c]} : secretFile'[e] = secretFile[e]
      BY <2>0 DEF SecretsTypes, Maps
    <3> QED
      BY <3>1, <3>2, <3>3 DEF OneMakes, IsMaking
  <2>4. KeysAreKeys'
    BY DEF KeysAreKeys, OneMakes, IsMaking, SecretsTypes, Maps
  <2>5. Secrets!IdentityStays'
    <3>1. ASSUME NEW e \in {"device", "iroh"} \ exempt, NEW key \in handed'[e] PROVE secretFile'[e] = key
      <4>1. CASE e = secretWants[c]
        <5>1. secretFile[e] = 0 /\ handed[e] = {}
          BY <3>1, <4>1 DEF OneMakes, IsMaking, KeysAreKeys, Secrets!IdentityStays
        <5> QED
          BY <2>0, <3>1, <4>1, <5>1 DEF SecretsTypes, Maps
      <4>2. CASE e # secretWants[c]
        BY <2>0, <3>1, <4>2 DEF Secrets!IdentityStays, SecretsTypes, Maps
      <4> QED
        BY <4>1, <4>2
    <3> QED
      BY <3>1 DEF Secrets!IdentityStays
  <2> QED
    BY <2>1, <2>2, <2>3, <2>4, <2>5 DEF SecretsInv
<1>4. ASSUME NEW c \in Callers, Secrets!Fail(c) PROVE SecretsInv'
  <2> USE <1>0, <1>c, <1>4 DEF Secrets!Fail, Secrets!Finish
  <2>1. SecretsTypes'
    BY DEF SecretsTypes, Keeping
  <2>2. OneRenames'
    BY DEF OneRenames, SecretsTypes, Keeping
  <2>3. OneMakes'
    BY DEF OneMakes, IsMaking, SecretsTypes, Keeping
  <2> QED
    BY <2>1, <2>2, <2>3 DEF SecretsInv, KeysAreKeys, Secrets!IdentityStays
<1>5. ASSUME NEW state \in {"open", "locked", "corrupt"}, Secrets!Fault(state) PROVE SecretsInv'
    BY <1>0, <1>5 DEF Secrets!Fault, SecretsInv, SecretsTypes, OneRenames, OneMakes, IsMaking, KeysAreKeys, Secrets!IdentityStays
<1>6. CASE Secrets!Restart
  <2> USE <1>0, <1>c, <1>6 DEF Secrets!Restart
  <2>1. \A c \in Callers : secretCall'[c] = Secrets!Idle /\ Secrets!Idle \in Keeping /\ Secrets!Idle.pc = "idle"
    BY DEF Secrets!Idle, Secrets!Empty, Keeping, Maps
  <2>2. SecretsTypes'
    BY <2>1 DEF SecretsTypes
  <2>3. Secrets!IdentityStays'
    BY DEF Secrets!IdentityStays, SecretsTypes, Maps
  <2> QED
    BY <2>1, <2>2, <2>3 DEF SecretsInv, OneRenames, OneMakes, IsMaking, KeysAreKeys
<1> QED
    BY <1>1, <1>2, <1>3, <1>4, <1>5, <1>6 DEF Secrets!Next


\* Settings and identities that were told or handed out are those a restart finds,
\* of two calls at once, after edits and power losses (Settings::save_with,
\* backend::set_in).
THEOREM FilesAreKept == Spec => FilesKeepWhatWasTold
<1> DEFINE S == part = "Settings" => SettingsInv
           K == part = "Secrets" => SecretsInv
           Told == part = "Settings" => Settings!PolicyIsAsTold
           Stays == part = "Secrets" => Secrets!IdentityStays
           Finds == part = "Settings" => Settings!StartFindsIt
<1>1. Init => S /\ K
    BY SettingsBegin, SecretsBegin DEF Init
<1>2. S /\ [Next]_vars => S'
  <2> SUFFICES ASSUME S, [Next]_vars, part = "Settings" PROVE SettingsInv'
    BY PartStays
  <2>1. CASE Settings!Next
    BY <2>1, SettingsStay
  <2>2. CASE UNCHANGED Settings!vars
    BY <2>2 DEF Settings!vars, SettingsInv, SettingsTypes, OneSaves, FileIsKnown, Settings!PolicyIsAsTold
  <2> QED
    BY <2>1, <2>2, SettingsMoves
<1>3. K /\ [Next]_vars => K'
  <2> SUFFICES ASSUME K, [Next]_vars, part = "Secrets" PROVE SecretsInv'
    BY PartStays
  <2>1. CASE Secrets!Next
    BY <2>1, SecretsStay
  <2>2. CASE UNCHANGED Secrets!vars
    BY <2>2 DEF Secrets!vars, SecretsInv, SecretsTypes, OneRenames, OneMakes, IsMaking, KeysAreKeys,
        Secrets!IdentityStays
  <2> QED
    BY <2>1, <2>2, SecretsMoves
<1>4. S /\ [Next]_vars => [Finds]_vars
  <2> SUFFICES ASSUME S, [Next]_vars, part = "Settings" PROVE Settings!StartFindsIt
    OBVIOUS
  <2>1. CASE Settings!Next
    BY <2>1, StartFinds
  <2>2. CASE UNCHANGED Settings!vars
    BY <2>2 DEF Settings!vars, Settings!StartFindsIt
  <2> QED
    BY <2>1, <2>2, SettingsMoves
<1>5. S => Told
    BY DEF SettingsInv
<1>6. K => Stays
    BY DEF SecretsInv
<1>7. Spec => []Told /\ [][Finds]_vars /\ []Stays
    BY <1>1, <1>2, <1>3, <1>4, <1>5, <1>6, PTL DEF Spec
<1> QED
    BY <1>7 DEF FilesKeepWhatWasTold
-----------------------------------------------------------------------------
(* Consent and crash reports *)

\* What is made is scrubbed before it is queued, and what is queued was asked for.
IsReport(r) ==
    \/ r = Telemetry!NoReport
    \/ r.stage = "made" /\ r.of = Telemetry!Fields
    \/ r.stage = "queued" /\ r.of = Telemetry!Scrubbed(Telemetry!Fields) /\ r.asked

TelemetryInv ==
    /\ report = [p \in Processes |-> report[p]] /\ \A p \in Processes : IsReport(report[p])
    /\ \A r \in reportsSent : r.of = Telemetry!Scrubbed(Telemetry!Fields) /\ r.asked
    /\ Telemetry!IsWithdrawn => consent # "on"

LEMMA ScrubbedIsNeutral ==
    ASSUME NEW f \in DOMAIN Telemetry!Fields
    PROVE  Telemetry!Scrubbed(Telemetry!Fields)[f] \subseteq {"neutral"}
<1>1. f \in Telemetry!Cleared \cup Telemetry!Carriers \/ Telemetry!Fields[f] \subseteq {"credential", "neutral"}
    BY DEF Telemetry!Fields, Telemetry!Cleared, Telemetry!Carriers
<1> HIDE DEF Telemetry!Fields
<1> QED
    BY <1>1 DEF Telemetry!Scrubbed, Telemetry!Redacted

LEMMA TelemetryBegins ==
    ASSUME Telemetry!Init
    PROVE  TelemetryInv
BY DEF Telemetry!Init, TelemetryInv, IsReport, Telemetry!IsWithdrawn

LEMMA TelemetryStays ==
    ASSUME TelemetryInv, Telemetry!Next
    PROVE  TelemetryInv'
<1> DEFINE Reports == report = [p \in Processes |-> report[p]] /\ \A p \in Processes : IsReport(report[p])
           Sent == \A r \in reportsSent : r.of = Telemetry!Scrubbed(Telemetry!Fields) /\ r.asked
           Consent == Telemetry!IsWithdrawn => consent # "on"
<1>0. Reports /\ Sent /\ Consent
    BY DEF TelemetryInv
<1>1. ASSUME UNCHANGED <<report, reportsSent>> PROVE Reports' /\ Sent'
    BY <1>0, <1>1
<1>2. ASSUME UNCHANGED <<consent, writing, answered, stuck>> PROVE Consent'
    BY <1>0, <1>2 DEF Telemetry!IsWithdrawn
<1>3. ASSUME NEW enabled \in BOOLEAN, Telemetry!SetConsent(enabled) PROVE TelemetryInv'
    BY <1>1, <1>3 DEF Telemetry!SetConsent, Telemetry!IsWithdrawn, TelemetryInv
<1>4. CASE Telemetry!Enable
    BY <1>1, <1>4 DEF Telemetry!Enable, Telemetry!Tell, Telemetry!IsWithdrawn, TelemetryInv
<1>5. CASE Telemetry!RemoveFile
    BY <1>1, <1>5 DEF Telemetry!RemoveFile, Telemetry!Tell, Telemetry!IsWithdrawn, TelemetryInv
<1>6. CASE Telemetry!Overwrite
  <2>1. Reports' /\ Sent'
    BY <1>1, <1>6 DEF Telemetry!Overwrite, Telemetry!Tell
  <2>2. CASE consent' = "off"
    BY <2>1, <2>2 DEF TelemetryInv
  <2>3. CASE UNCHANGED consent /\ Telemetry!Tell("off", consent = "on")
    <3>1. stuck' = (consent = "on") /\ consent' = consent
      BY <2>3 DEF Telemetry!Tell
    <3>2. consent' = "on" => stuck'
      BY <3>1
    <3> QED
      BY <2>1, <3>2 DEF TelemetryInv, Telemetry!IsWithdrawn
  <2> QED
    BY <1>6, <2>2, <2>3 DEF Telemetry!Overwrite
<1>7. ASSUME NEW p \in Processes, Telemetry!Capture(p) PROVE TelemetryInv'
  <2>1. report[p] = Telemetry!NoReport
    BY <1>0, <1>7 DEF Telemetry!Capture, IsReport
  <2>2. report' = [report EXCEPT ![p].stage = "made"] /\ UNCHANGED reportsSent /\ Consent'
    BY <1>2, <1>7 DEF Telemetry!Capture
  <2>3. report'[p].stage = "made" /\ report'[p].of = Telemetry!Fields
    BY <1>0, <2>1, <2>2 DEF Telemetry!NoReport
  <2>4. report' = [q \in Processes |-> report'[q]] /\ \A q \in Processes \ {p} : report'[q] = report[q]
    BY <1>0, <2>2
  <2> QED
    BY <1>0, <2>2, <2>3, <2>4 DEF TelemetryInv, IsReport
<1>8. ASSUME NEW p \in Processes, Telemetry!BeforeSend(p) PROVE TelemetryInv'
  <2>1. UNCHANGED reportsSent /\ Consent' /\ report[p].stage = "made"
    BY <1>2, <1>8 DEF Telemetry!BeforeSend
  <2>2. report[p].of = Telemetry!Fields
    BY <1>0, <2>1 DEF IsReport, Telemetry!NoReport
  <2>3. CASE consent = "on"
    <3> DEFINE asked == ~Telemetry!IsWithdrawn
               r == [stage |-> "queued", of |-> Telemetry!Scrubbed(report[p].of), asked |-> asked]
    <3>1. report' = [report EXCEPT ![p] = r]
      BY <1>8, <2>3 DEF Telemetry!BeforeSend, Telemetry!IsLive
    <3>2. asked
      BY <1>0, <2>3
    <3>3. r.stage = "queued" /\ r.of = Telemetry!Scrubbed(Telemetry!Fields) /\ r.asked
      BY <2>2, <3>2
    <3> HIDE DEF r
    <3> QED
      BY <1>0, <2>1, <3>1, <3>3 DEF TelemetryInv, IsReport
  <2>4. CASE consent # "on"
    <3>1. report' = [report EXCEPT ![p] = Telemetry!NoReport]
      BY <1>8, <2>4 DEF Telemetry!BeforeSend, Telemetry!IsLive
    <3> QED
      BY <1>0, <2>1, <3>1 DEF TelemetryInv, IsReport
  <2> QED
    BY <2>3, <2>4
<1>9. ASSUME NEW p \in Processes, Telemetry!Send(p) \/ Telemetry!Abort(p) PROVE TelemetryInv'
  <2>1. /\ report' = [report EXCEPT ![p] = Telemetry!NoReport] /\ Consent'
        /\ reportsSent' \in {reportsSent, reportsSent \cup {report[p]}}
        /\ reportsSent' # reportsSent => report[p].stage = "queued"
    BY <1>2, <1>9 DEF Telemetry!Send, Telemetry!Abort
  <2>2. report[p].stage = "queued" => report[p].of = Telemetry!Scrubbed(Telemetry!Fields) /\ report[p].asked
    BY <1>0 DEF IsReport, Telemetry!NoReport
  <2>3. Sent'
    BY <1>0, <2>1, <2>2
  <2> QED
    BY <1>0, <2>1, <2>3 DEF TelemetryInv, IsReport
<1>10. ASSUME NEW p \in Processes, Telemetry!Start(p) PROVE TelemetryInv'
    BY <1>1, <1>2, <1>10 DEF Telemetry!Start, TelemetryInv
<1> QED
    BY <1>3, <1>4, <1>5, <1>6, <1>7, <1>8, <1>9, <1>10 DEF Telemetry!Next

LEMMA TelemetrySafe ==
    ASSUME TelemetryInv
    PROVE  Telemetry!ReportsAreAsked
<1>1. DOMAIN Telemetry!Scrubbed(Telemetry!Fields) = DOMAIN Telemetry!Fields
    BY DEF Telemetry!Scrubbed
<1>2. \A f \in DOMAIN Telemetry!Fields : Telemetry!Scrubbed(Telemetry!Fields)[f] \subseteq {"neutral"}
    BY ScrubbedIsNeutral
<1>3. \A r \in reportsSent : r.of = Telemetry!Scrubbed(Telemetry!Fields) /\ r.asked
    BY DEF TelemetryInv
<1> HIDE DEF Telemetry!Scrubbed, Telemetry!Fields
<1> QED
    BY <1>1, <1>2, <1>3 DEF Telemetry!ReportsAreAsked


\* No report goes that the user did not agree to, of whatever process, and none holds
\* anything private, though the consent changes while one is made (consent_is_live,
\* before_send).
THEOREM ReportsAlwaysAsked == Spec => []ReportsAreAsked
<1> DEFINE I == part = "Telemetry" => TelemetryInv
<1>1. Init => I
    BY TelemetryBegins DEF Init
<1>2. I /\ [Next]_vars => I'
  <2> SUFFICES ASSUME I, [Next]_vars, part = "Telemetry" PROVE TelemetryInv'
    BY PartStays
  <2>1. CASE Telemetry!Next
    BY <2>1, TelemetryStays
  <2>2. CASE UNCHANGED Telemetry!vars
    BY <2>2 DEF Telemetry!vars, TelemetryInv, IsReport, Telemetry!IsWithdrawn
  <2> QED
    BY <2>1, <2>2, TelemetryMoves
<1>3. I => ReportsAreAsked
    BY TelemetrySafe DEF ReportsAreAsked
<1> QED
    BY <1>1, <1>2, <1>3, PTL DEF Spec
-----------------------------------------------------------------------------
(* Plugin marketplace *)

MarketStages == {"idle", "listing", "listed", "failed", "done", "stored", "refused", "asked"}

\* What a list held, and what a route goes by, was offered at its age.
IsListing(listing) ==
    /\ listing.at \in 0 .. changes
    /\ \A i \in DOMAIN listing.plugins :
         i \in DOMAIN Catalogs[listing.at + 1] /\ listing.plugins[i].offer = Catalogs[listing.at + 1][i]
IsEntry(r, p) ==
    /\ p.market = r.market /\ p.plugin = r.plugin /\ p.path = r.path
    /\ r.installable => p.told /\ p.available /\ p.policy = "available"
IsRoute(r) ==
    /\ r.at \in 0 .. changes
    /\ \E i \in DOMAIN Catalogs[r.at + 1] : IsEntry(r, Catalogs[r.at + 1][i])

MarketTypes ==
    /\ marketCall \in [PluginCalls -> MarketStages] /\ DOMAIN answer = PluginCalls
    /\ changes \in Nat /\ changes < Len(Catalogs)
    /\ floor \in [PluginCalls -> Nat]

ListsAreOffers ==
    \A c \in PluginCalls :
        /\ floor[c] <= changes
        /\ marketCall[c] = "listed" => IsListing(answer[c]) /\ floor[c] <= answer[c].at

\* Who has stored its list has the oldest age of those under way: the routes there are,
\* and those that will replace them, are no older.
StoredAreFloors ==
    \A c \in PluginCalls : marketCall[c] = "stored" =>
        /\ \A r \in routes : floor[c] <= r.at
        /\ \A d \in Marketplace!UnderWay : floor[c] <= floor[d]

GoesBy(c, r) ==
    /\ IsRoute(r) /\ floor[c] <= r.at
    /\ r.market = marketWants[c].market /\ r.plugin = marketWants[c].plugin
    /\ Marketplace!Kind(c) = "install" => r.installable /\ marketWants[c].confirmed
AskedAreRoutes == \A c \in PluginCalls : marketCall[c] = "asked" => GoesBy(c, answer[c].plugins[1])

MarketInv ==
    /\ MarketTypes /\ ListsAreOffers /\ StoredAreFloors /\ AskedAreRoutes
    /\ \A r \in routes : IsRoute(r)

LEMMA LeastFloor ==
    ASSUME NEW T, T \subseteq Nat, T # {}
    PROVE  Marketplace!Min(T) \in T /\ \A n \in T : Marketplace!Min(T) <= n
BY LeastNumber DEF Marketplace!Min

\* A route is an entry of the list that it was made from.
LEMMA RoutesAreEntries ==
    ASSUME MarketTypes, NEW listing, IsListing(listing), NEW r \in Marketplace!RoutesOf(listing)
    PROVE  IsRoute(r) /\ r.at = listing.at
<1> DEFINE plugins == listing.plugins
<1>1. PICK i \in DOMAIN plugins : r = Marketplace!RouteOf(plugins[i], listing.at)
    BY DEF Marketplace!RoutesOf
<1>2. /\ r.at = listing.at /\ r.market = plugins[i].offer.market
      /\ r.plugin = plugins[i].offer.plugin /\ r.path = plugins[i].offer.path
      /\ r.installable = Marketplace!Installable(plugins[i])
    BY <1>1 DEF Marketplace!RouteOf
<1>3. i \in DOMAIN Catalogs[listing.at + 1] /\ plugins[i].offer = Catalogs[listing.at + 1][i]
    BY DEF IsListing
<1>4. IsEntry(r, plugins[i].offer)
    BY <1>2 DEF IsEntry, Marketplace!Installable
<1> QED
    BY <1>2, <1>3, <1>4 DEF IsRoute, IsListing

LEMMA MarketBegins ==
    ASSUME Marketplace!Init
    PROVE  MarketInv
BY SomethingIsOffered DEF Marketplace!Init, MarketInv, MarketTypes, MarketStages, ListsAreOffers, StoredAreFloors,
    AskedAreRoutes, Marketplace!UnderWay

\* An age that was offered stays one.
LEMMA OffersStay ==
    ASSUME MarketTypes, changes' \in Nat, changes <= changes'
    PROVE  /\ \A listing : IsListing(listing) => IsListing(listing)'
           /\ \A r : IsRoute(r) => IsRoute(r)'
BY DEF MarketTypes, IsListing, IsRoute, IsEntry

\* Who has asked still goes by its route.
LEMMA AskedStay ==
    ASSUME MarketTypes, changes' \in Nat, changes <= changes', UNCHANGED marketWants,
           NEW c \in PluginCalls, GoesBy(c, answer[c].plugins[1]), answer'[c] = answer[c], floor'[c] = floor[c]
    PROVE  GoesBy(c, answer[c].plugins[1])'
<1> DEFINE r == answer[c].plugins[1]
<1>1. IsRoute(r) /\ floor[c] <= r.at
    BY DEF GoesBy
<1>2. r' = r
    OBVIOUS
<1>3. r.at \in 0 .. changes'
    BY <1>1 DEF IsRoute, MarketTypes
<1>4. PICK i \in DOMAIN Catalogs[r.at + 1] : IsEntry(r, Catalogs[r.at + 1][i])
    BY <1>1 DEF IsRoute
<1>5. IsEntry(r', Catalogs[r.at + 1][i])
    BY <1>2, <1>4, Zenon DEF IsEntry
<1>6. IsRoute(r)'
    BY <1>2, <1>3, <1>4, <1>5 DEF IsRoute, IsEntry
<1>7. /\ r.market = marketWants[c].market /\ r.plugin = marketWants[c].plugin
      /\ Marketplace!Kind(c) = "install" => r.installable /\ marketWants[c].confirmed
    BY DEF GoesBy
<1>8. (/\ r.market = marketWants[c].market /\ r.plugin = marketWants[c].plugin
       /\ Marketplace!Kind(c) = "install" => r.installable /\ marketWants[c].confirmed)'
    BY <1>2, <1>7 DEF Marketplace!Kind
<1>9. (floor[c] <= r.at)'
    BY <1>1, <1>2
<1> QED
    BY <1>6, <1>8, <1>9 DEF GoesBy

LEMMA MarketStays ==
    ASSUME MarketInv, Marketplace!Next
    PROVE  MarketInv'
<1> DEFINE Routes == \A r \in routes : IsRoute(r)
<1>1. MarketTypes /\ ListsAreOffers /\ StoredAreFloors /\ AskedAreRoutes /\ Routes
    BY DEF MarketInv
<1> USE DEF MarketStages
<1> SUFFICES MarketTypes' /\ ListsAreOffers' /\ StoredAreFloors' /\ AskedAreRoutes' /\ Routes'
    BY DEF MarketInv
<1>2. ASSUME NEW c \in PluginCalls, Marketplace!Begin(c)
      PROVE  MarketTypes' /\ ListsAreOffers' /\ StoredAreFloors' /\ AskedAreRoutes' /\ Routes'
  <2> USE DEF Marketplace!Begin, Marketplace!Goto
  <2>1. MarketTypes'
      BY <1>1, <1>2 DEF MarketTypes
  <2>2. ListsAreOffers'
      BY <1>1, <1>2 DEF MarketTypes, ListsAreOffers, IsListing
  <2>3. StoredAreFloors'
      BY <1>1, <1>2 DEF MarketTypes, ListsAreOffers, StoredAreFloors, Marketplace!UnderWay
  <2>4. AskedAreRoutes'
    <3> SUFFICES ASSUME NEW d \in PluginCalls, marketCall'[d] = "asked"
                 PROVE  GoesBy(d, answer[d].plugins[1])'
        BY DEF AskedAreRoutes
    <3>1. /\ GoesBy(d, answer[d].plugins[1]) /\ answer'[d] = answer[d] /\ floor'[d] = floor[d]
          /\ changes' \in Nat /\ changes <= changes' /\ UNCHANGED marketWants
        BY <1>1, <1>2 DEF MarketTypes, AskedAreRoutes
    <3> QED
        BY <1>1, <3>1, AskedStay
  <2>5. Routes'
      BY <1>1, <1>2 DEF IsRoute, IsEntry
  <2> QED
      BY <2>1, <2>2, <2>3, <2>4, <2>5
<1>3. ASSUME NEW c \in PluginCalls, Marketplace!Answered(c)
      PROVE  MarketTypes' /\ ListsAreOffers' /\ StoredAreFloors' /\ AskedAreRoutes' /\ Routes'
  <2> USE DEF Marketplace!Answered, Marketplace!Goto
  <2>1. MarketTypes'
      BY <1>1, <1>3 DEF MarketTypes
  <2>2. IsListing(Marketplace!Listing) /\ Marketplace!Listing.at = changes
      BY <1>1 DEF IsListing, Marketplace!Listing, Marketplace!Offer, MarketTypes
  <2>3. ListsAreOffers'
      BY <1>1, <1>3, <2>2 DEF MarketTypes, ListsAreOffers, IsListing
  <2>4. StoredAreFloors'
      BY <1>1, <1>3 DEF MarketTypes, StoredAreFloors, Marketplace!UnderWay
  <2>5. AskedAreRoutes'
    <3> SUFFICES ASSUME NEW d \in PluginCalls, marketCall'[d] = "asked"
                 PROVE  GoesBy(d, answer[d].plugins[1])'
        BY DEF AskedAreRoutes
    <3>1. /\ GoesBy(d, answer[d].plugins[1]) /\ answer'[d] = answer[d] /\ floor'[d] = floor[d]
          /\ changes' \in Nat /\ changes <= changes' /\ UNCHANGED marketWants
        BY <1>1, <1>3 DEF MarketTypes, AskedAreRoutes
    <3> QED
        BY <1>1, <3>1, AskedStay
  <2>6. Routes'
      BY <1>1, <1>3 DEF IsRoute, IsEntry
  <2> QED
      BY <2>1, <2>3, <2>4, <2>5, <2>6
<1>4. ASSUME NEW c \in PluginCalls, Marketplace!Store(c)
      PROVE  MarketTypes' /\ ListsAreOffers' /\ StoredAreFloors' /\ AskedAreRoutes' /\ Routes'
  <2> DEFINE under == {floor[d] : d \in Marketplace!UnderWay}
             least == Marketplace!Min(under)
  <2>1. /\ marketCall[c] = "listed" /\ routes' = Marketplace!RoutesOf(answer[c])
        /\ floor' = [floor EXCEPT ![c] = least]
        /\ \E to \in {"done", "stored"} : marketCall' = [marketCall EXCEPT ![c] = to]
        /\ UNCHANGED <<marketWants, changes, answer>>
      BY <1>4, Zenon DEF Marketplace!Store, Marketplace!Goto, Marketplace!NewRoutes
  <2>2. floor[c] \in under /\ under \subseteq Nat
      BY <1>1, <2>1 DEF MarketTypes, Marketplace!UnderWay
  <2>3. least \in Nat /\ \A d \in Marketplace!UnderWay : least <= floor[d]
      BY <2>2, LeastFloor
  <2>4. least <= floor[c]
      BY <2>2, LeastFloor
  <2> HIDE DEF under, least
  <2>5. MarketTypes'
      BY <1>1, <2>1, <2>3 DEF MarketTypes
  <2>6. ListsAreOffers'
      BY <1>1, <2>1, <2>3, <2>4 DEF MarketTypes, ListsAreOffers, IsListing
  <2>7. IsListing(answer[c]) /\ floor[c] <= answer[c].at
      BY <1>1, <2>1 DEF ListsAreOffers
  <2>8. \A r \in routes' : IsRoute(r) /\ r.at = answer[c].at
      BY <1>1, <2>1, <2>7, RoutesAreEntries
  <2>9. Routes'
      BY <2>1, <2>8 DEF IsRoute, IsEntry
  <2>10. \A d \in Marketplace!UnderWay' : d \in Marketplace!UnderWay /\ d # c
      BY <1>1, <2>1 DEF MarketTypes, Marketplace!UnderWay
  <2>11. ASSUME NEW d \in PluginCalls, marketCall'[d] = "stored"
         PROVE  /\ \A r \in routes' : floor'[d] <= r.at
                /\ \A e \in Marketplace!UnderWay' : floor'[d] <= floor'[e]
    <3>1. c \in Marketplace!UnderWay /\ answer[c].at \in Nat
        BY <2>1, <2>7, <1>1 DEF Marketplace!UnderWay, IsListing, MarketTypes
    <3>2. floor'[d] \in Nat /\ floor'[d] <= floor[c] /\ \A e \in Marketplace!UnderWay : floor'[d] <= floor[e]
        BY <1>1, <2>1, <2>3, <2>4, <2>11, <3>1 DEF MarketTypes, StoredAreFloors
    <3>3. \A e \in Marketplace!UnderWay' : floor'[e] = floor[e]
        BY <2>1, <2>10, <1>1 DEF MarketTypes, Marketplace!UnderWay
    <3> QED
        BY <1>1, <2>7, <2>8, <2>10, <3>1, <3>2, <3>3 DEF MarketTypes
  <2>12. StoredAreFloors'
      BY <2>11 DEF StoredAreFloors
  <2>13. AskedAreRoutes'
    <3> SUFFICES ASSUME NEW d \in PluginCalls, marketCall'[d] = "asked"
                 PROVE  GoesBy(d, answer[d].plugins[1])'
        BY DEF AskedAreRoutes
    <3>1. /\ GoesBy(d, answer[d].plugins[1]) /\ answer'[d] = answer[d] /\ floor'[d] = floor[d]
          /\ changes' \in Nat /\ changes <= changes' /\ UNCHANGED marketWants
        BY <1>1, <2>1 DEF MarketTypes, AskedAreRoutes
    <3> QED
        BY <1>1, <3>1, AskedStay
  <2> QED
      BY <2>5, <2>6, <2>9, <2>12, <2>13
<1>5. ASSUME NEW c \in PluginCalls, Marketplace!Ask(c)
      PROVE  MarketTypes' /\ ListsAreOffers' /\ StoredAreFloors' /\ AskedAreRoutes' /\ Routes'
  <2>1. PICK r \in Marketplace!Route(c) :
          /\ Marketplace!Kind(c) = "install" => Marketplace!MayInstall(r, c)
          /\ answer' = [answer EXCEPT ![c] = [at |-> r.at, plugins |-> <<r>>]]
      BY <1>5 DEF Marketplace!Ask
  <2>2. /\ marketCall[c] = "stored" /\ marketCall' = [marketCall EXCEPT ![c] = "asked"]
        /\ UNCHANGED <<marketWants, changes, routes, floor>>
      BY <1>5 DEF Marketplace!Ask, Marketplace!Goto
  <2>3. r \in routes /\ r.market = marketWants[c].market /\ r.plugin = marketWants[c].plugin
      BY DEF Marketplace!Route
  <2>4. GoesBy(c, r)
      BY <1>1, <2>1, <2>2, <2>3 DEF GoesBy, StoredAreFloors, Marketplace!MayInstall
  <2>5. MarketTypes'
      BY <1>1, <2>1, <2>2 DEF MarketTypes
  <2>6. ListsAreOffers' /\ StoredAreFloors' /\ Routes'
      BY <1>1, <2>1, <2>2 DEF MarketTypes, ListsAreOffers, IsListing, StoredAreFloors, Marketplace!UnderWay,
          IsRoute, IsEntry
  <2>7. answer'[c].plugins[1] = r
      BY <1>1, <2>1 DEF MarketTypes
  <2>8. AskedAreRoutes'
    <3> SUFFICES ASSUME NEW d \in PluginCalls, marketCall'[d] = "asked"
                 PROVE  GoesBy(d, answer[d].plugins[1])'
        BY Zenon DEF AskedAreRoutes
    <3>1. CASE d = c
        BY <2>2, <2>4, <2>7, <3>1 DEF GoesBy, IsRoute, IsEntry, Marketplace!Kind
    <3>2. CASE d # c
      <4>1. /\ GoesBy(d, answer[d].plugins[1]) /\ answer'[d] = answer[d] /\ floor'[d] = floor[d]
            /\ changes' \in Nat /\ changes <= changes' /\ UNCHANGED marketWants
          BY <1>1, <2>1, <2>2, <3>2 DEF MarketTypes, AskedAreRoutes
      <4> QED
          BY <1>1, <4>1, AskedStay
    <3> QED
        BY <3>1, <3>2
  <2> QED
      BY <2>5, <2>6, <2>8
<1>6. ASSUME NEW c \in PluginCalls,
             Marketplace!Fails(c) \/ Marketplace!Refuse(c) \/ Marketplace!Install(c) \/ Marketplace!Uninstall(c)
      PROVE  MarketTypes' /\ ListsAreOffers' /\ StoredAreFloors' /\ AskedAreRoutes' /\ Routes'
  <2>1. /\ \E to \in {"failed", "refused", "done"} : marketCall' = [marketCall EXCEPT ![c] = to]
        /\ UNCHANGED <<marketWants, changes, routes, answer, floor>>
      BY <1>6, Zenon DEF Marketplace!Fails, Marketplace!Refuse, Marketplace!Install, Marketplace!Uninstall,
          Marketplace!Goto
  <2>2. MarketTypes' /\ ListsAreOffers' /\ Routes'
      BY <1>1, <2>1 DEF MarketTypes, ListsAreOffers, IsListing, IsRoute, IsEntry
  <2>3. StoredAreFloors'
      BY <1>1, <2>1 DEF MarketTypes, StoredAreFloors, Marketplace!UnderWay
  <2>4. AskedAreRoutes'
    <3> SUFFICES ASSUME NEW d \in PluginCalls, marketCall'[d] = "asked"
                 PROVE  GoesBy(d, answer[d].plugins[1])'
        BY DEF AskedAreRoutes
    <3>1. /\ GoesBy(d, answer[d].plugins[1]) /\ answer'[d] = answer[d] /\ floor'[d] = floor[d]
          /\ changes' \in Nat /\ changes <= changes' /\ UNCHANGED marketWants
        BY <1>1, <2>1 DEF MarketTypes, AskedAreRoutes
    <3> QED
        BY <1>1, <3>1, AskedStay
  <2> QED
      BY <2>2, <2>3, <2>4
<1>7. ASSUME Marketplace!OfferChanges
      PROVE  MarketTypes' /\ ListsAreOffers' /\ StoredAreFloors' /\ AskedAreRoutes' /\ Routes'
  <2>1. /\ changes' = changes + 1 /\ changes + 1 < Len(Catalogs)
        /\ UNCHANGED <<marketWants, routes, marketCall, answer, floor>>
      BY <1>7 DEF Marketplace!OfferChanges
  <2>2. /\ \A listing : IsListing(listing) => IsListing(listing)'
        /\ \A r : IsRoute(r) => IsRoute(r)'
    <3>1. changes' \in Nat /\ changes <= changes'
        BY <1>1, <2>1 DEF MarketTypes
    <3> QED
        BY <1>1, <3>1, OffersStay
  <2>3. MarketTypes'
      BY <1>1, <2>1, SomethingIsOffered DEF MarketTypes
  <2>4. ListsAreOffers'
    <3> SUFFICES ASSUME NEW c \in PluginCalls
                 PROVE  /\ floor[c] <= changes'
                        /\ marketCall[c] = "listed" => IsListing(answer[c])' /\ floor[c] <= answer[c].at
        BY <2>1 DEF ListsAreOffers
    <3>1. floor[c] <= changes'
        BY <1>1, <2>1 DEF MarketTypes, ListsAreOffers
    <3>2. marketCall[c] = "listed" => IsListing(answer[c]) /\ floor[c] <= answer[c].at
        BY <1>1 DEF ListsAreOffers
    <3>3. IsListing(answer[c]) => IsListing(answer[c])'
        BY <2>1, <1>1, SomethingIsOffered DEF IsListing, MarketTypes
    <3> QED
        BY <3>1, <3>2, <3>3
  <2>5. StoredAreFloors'
      BY <1>1, <2>1 DEF StoredAreFloors, Marketplace!UnderWay
  <2>6. Routes'
      BY <1>1, <2>1, <2>2
  <2>7. AskedAreRoutes'
    <3> SUFFICES ASSUME NEW d \in PluginCalls, marketCall'[d] = "asked"
                 PROVE  GoesBy(d, answer[d].plugins[1])'
        BY DEF AskedAreRoutes
    <3>1. /\ GoesBy(d, answer[d].plugins[1]) /\ answer'[d] = answer[d] /\ floor'[d] = floor[d]
          /\ changes' \in Nat /\ changes <= changes' /\ UNCHANGED marketWants
        BY <1>1, <2>1, SMTT(30) DEF MarketTypes, AskedAreRoutes
    <3> QED
        BY <1>1, <3>1, AskedStay
  <2> QED
      BY <2>3, <2>4, <2>5, <2>6, <2>7
<1> QED
    BY <1>2, <1>3, <1>4, <1>5, <1>6, <1>7 DEF Marketplace!Next

LEMMA MarketSafe ==
    ASSUME MarketInv
    PROVE  Marketplace!RoutesAreCurrent
<1> SUFFICES ASSUME NEW c \in PluginCalls, marketCall[c] = "asked"
             PROVE  LET r == answer[c].plugins[1]
                    IN  /\ r.at >= floor[c]
                        /\ \E i \in DOMAIN Catalogs[r.at + 1] :
                             LET p == Catalogs[r.at + 1][i]
                             IN  /\ p.market = marketWants[c].market /\ p.plugin = marketWants[c].plugin /\ p.path = r.path
                                 /\ Marketplace!Kind(c) = "install" =>
                                      marketWants[c].confirmed /\ p.told /\ p.available /\ p.policy = "available"
    BY DEF Marketplace!RoutesAreCurrent
<1> DEFINE r == answer[c].plugins[1]
<1>1. GoesBy(c, r)
    BY DEF MarketInv, AskedAreRoutes
<1>2. r.at \in Nat /\ floor[c] \in Nat
    BY <1>1 DEF GoesBy, IsRoute, MarketInv, MarketTypes
<1>3. PICK i \in DOMAIN Catalogs[r.at + 1] : IsEntry(r, Catalogs[r.at + 1][i])
    BY <1>1 DEF GoesBy, IsRoute
<1> QED
    BY <1>1, <1>2, <1>3 DEF GoesBy, IsEntry

\* An install that is sent was confirmed and goes by an entry of a list no older than
\* those that were under way with its own, of any number of calls and of any offers
\* (marketplace_plugin_install).
THEOREM RoutesStayCurrent == Spec => []RoutesAreCurrent
<1> DEFINE I == part = "Marketplace" => MarketInv
<1>1. Init => I
    BY MarketBegins DEF Init
<1>2. I /\ [Next]_vars => I'
  <2> SUFFICES ASSUME I, [Next]_vars, part = "Marketplace" PROVE MarketInv'
    BY PartStays
  <2>1. CASE Marketplace!Next
    BY <2>1, MarketStays, Zenon
  <2>2. CASE UNCHANGED Marketplace!vars
    BY <2>2 DEF Marketplace!vars, MarketInv, MarketTypes, ListsAreOffers, IsListing, IsRoute, IsEntry,
        StoredAreFloors, AskedAreRoutes, GoesBy, Marketplace!UnderWay, Marketplace!Kind
  <2> QED
    BY <2>1, <2>2, MarketplaceMoves
<1>3. I => RoutesAreCurrent
    BY MarketSafe DEF RoutesAreCurrent
<1> QED
    BY <1>1, <1>2, <1>3, PTL DEF Spec
-----------------------------------------------------------------------------
(* Labels of attachments *)

Entries == [file : Files, size : Nat, version : Nat]
NamesAreNames == \A f \in Files : IsList(disk[f].name)

LEMMA SameCardinality ==
    ASSUME NEW S
    PROVE  Attachments!Cardinality(S) = Cardinality(S)
BY DEF Attachments!Cardinality, Cardinality

LEMMA NameIsSequence ==
    ASSUME NEW n, IsList(n)
    PROVE  \E S : n \in Seq(S) /\ Nat \subseteq S
<1> DEFINE S == {n[i] : i \in 1 .. Len(n)} \cup Nat
<1>1. n \in [1 .. Len(n) -> S]
    BY DEF IsList
<1>2. n \in Seq(S)
    BY <1>1 DEF IsList
<1> QED
    BY <1>2

LEMMA EntryIsNamed ==
    ASSUME NEW list \in Seq(Entries), NamesAreNames, NEW i \in DOMAIN list
    PROVE  IsList(Attachments!NameOf(list[i]))
<1>1. list[i] \in Entries
    OBVIOUS
<1>2. list[i].file \in Files
    BY <1>1 DEF Entries
<1> QED
    BY <1>2 DEF NamesAreNames, Attachments!NameOf

\* A name with a number goes on from it, and tells its number.
LEMMA NumberedName ==
    ASSUME NEW n, IsList(n), NEW k \in Nat
    PROVE  /\ Attachments!IsPrefix(n, n) /\ Attachments!IsPrefix(n, Append(n, k))
           /\ \A m \in Nat : Append(n, m) = Append(n, k) => m = k
<1>1. PICK S : n \in Seq(S) /\ Nat \subseteq S
    BY NameIsSequence
<1> QED
    BY <1>1 DEF Attachments!IsPrefix

LEMMA NumberedNames ==
    ASSUME NEW n, NEW m, IsList(n), IsList(m), NEW k \in Nat, NEW j \in Nat, Append(n, k) = Append(m, j)
    PROVE  k = j /\ n = m
<1>1. PICK S : n \in Seq(S) /\ Nat \subseteq S
    BY NameIsSequence
<1>2. PICK T : m \in Seq(T) /\ Nat \subseteq T
    BY NameIsSequence
<1>3. Len(n) = Len(m) /\ k = j
    BY <1>1, <1>2
<1>4. \A i \in 1 .. Len(n) : n[i] = m[i]
    BY <1>1, <1>2, <1>3
<1> QED
    BY <1>1, <1>2, <1>3, <1>4

\* Of more numbers than there are files one gives none of them its name.
LEMMA OneIsFree ==
    ASSUME NEW list \in Seq(Entries), NamesAreNames, NEW i \in DOMAIN list, NEW last \in Nat
    PROVE  \E k \in last + 1 .. last + 1 + Len(list) :
             Append(Attachments!NameOf(list[i]), k) \notin Attachments!Reserved(list)
<1> DEFINE n == Attachments!NameOf(list[i])
           R == Attachments!Reserved(list)
           K == last + 1 .. last + 1 + Len(list)
           f == [k \in K |-> Append(n, k)]
           g == [j \in 1 .. Len(list) |-> Attachments!NameOf(list[j])]
<1>1. IsList(n)
    BY EntryIsNamed
<1>2. IsFiniteSet(R) /\ Cardinality(R) <= Len(list)
  <2>1. g \in Surjection(1 .. Len(list), R)
    <3>1. R = {Attachments!NameOf(list[j]) : j \in 1 .. Len(list)}
      BY DEF Attachments!Reserved
    <3>2. g \in [1 .. Len(list) -> R] /\ \A t \in R : \E j \in 1 .. Len(list) : g[j] = t
      <4> HIDE DEF R
      <4> QED
        BY <3>1
    <3> HIDE DEF g, R
    <3> QED
      BY <3>2 DEF Surjection
  <2>2. IsFiniteSet(1 .. Len(list)) /\ Cardinality(1 .. Len(list)) = Len(list)
    BY FS_Interval
  <2> HIDE DEF g, R
  <2> QED
    BY <2>1, <2>2, FS_Surjection
<1>3. IsFiniteSet(K) /\ Cardinality(K) = Len(list) + 1
  <2> DEFINE a == last + 1
             b == last + 1 + Len(list)
  <2>1. a \in Int /\ b \in Int /\ ~(a > b) /\ b - a + 1 = Len(list) + 1 /\ K = a .. b
    OBVIOUS
  <2> HIDE DEF a, b, K
  <2>2. IsFiniteSet(a .. b) /\ Cardinality(a .. b) = IF a > b THEN 0 ELSE b - a + 1
    BY <2>1, FS_Interval
  <2> QED
    BY <2>1, <2>2
<1>4. Cardinality(R) \in Nat
    BY <1>2, FS_CardinalityType
<1> SUFFICES ASSUME \A k \in K : Append(n, k) \in R PROVE FALSE
    OBVIOUS
<1>5. \A k, j \in K : f[k] = f[j] => k = j
  <2> HIDE DEF n
  <2> QED
    BY <1>1, NumberedName
<1>6. f \in [K -> R]
    OBVIOUS
<1> HIDE DEF f, R, K, n
<1>7. f \in Injection(K, R)
    BY <1>5, <1>6 DEF Injection, IsInjective
<1> QED
    BY <1>2, <1>3, <1>4, <1>7, FS_Injection

LEMMA NumberGoesOn ==
    ASSUME NEW list \in Seq(Entries), NamesAreNames, NEW i \in DOMAIN list, NEW last \in Nat
    PROVE  LET k == Attachments!NumberAfter(list, i, last)
           IN  /\ k \in Nat /\ last <= k
               /\ ~Attachments!IsAlone(list, i) =>
                    last < k /\ Append(Attachments!NameOf(list[i]), k) \notin Attachments!Reserved(list)
<1> DEFINE T == {k \in last + 1 .. last + 1 + Len(list) :
                  Append(Attachments!NameOf(list[i]), k) \notin Attachments!Reserved(list)}
<1>1. T \subseteq Nat /\ T # {}
  <2>1. PICK k \in last + 1 .. last + 1 + Len(list) :
          Append(Attachments!NameOf(list[i]), k) \notin Attachments!Reserved(list)
    BY OneIsFree
  <2>2. k \in T
    BY <2>1
  <2> QED
    BY <2>2
<1>2. Attachments!Min(T) \in T
  <2> HIDE DEF T
  <2> QED
    BY <1>1, LeastNumber DEF Attachments!Min
<1>3. ~Attachments!IsAlone(list, i) => Attachments!NumberAfter(list, i, last) = Attachments!Min(T)
    BY DEF Attachments!NumberAfter
<1>4. Attachments!IsAlone(list, i) => Attachments!NumberAfter(list, i, last) = last
    BY DEF Attachments!NumberAfter
<1> HIDE DEF T
<1>5. \A k \in T : k \in Nat /\ last < k /\ Append(Attachments!NameOf(list[i]), k) \notin Attachments!Reserved(list)
    BY DEF T
<1> QED
    BY <1>2, <1>3, <1>4, <1>5

\* The recursive function in Numbers, on the first n files.
IsNumbering(list, n, f) ==
    f = [i \in 0 .. n |-> IF i = 0 THEN 0 ELSE Attachments!NumberAfter(list, i, f[i - 1])]

LEMMA NumbersExist ==
    ASSUME NEW list
    PROVE  \A n \in Nat : \E f : IsNumbering(list, n, f)
<1> DEFINE G == {n \in Nat : \E f : IsNumbering(list, n, f)}
<1>1. 0 \in G
  <2> DEFINE f == [i \in 0 .. 0 |-> 0]
  <2>1. IsNumbering(list, 0, f)
    BY DEF IsNumbering
  <2> QED
    BY <2>1
<1>2. ASSUME NEW n \in Nat, n \in G
      PROVE  n + 1 \in G
  <2>1. PICK f : IsNumbering(list, n, f)
    BY <1>2
  <2> DEFINE g == [i \in 0 .. n + 1 |-> IF i = n + 1 THEN Attachments!NumberAfter(list, i, f[n]) ELSE f[i]]
             h == [i \in 0 .. n + 1 |-> IF i = 0 THEN 0 ELSE Attachments!NumberAfter(list, i, g[i - 1])]
  <2>2. ASSUME NEW i \in 0 .. n + 1
        PROVE  g[i] = h[i]
    <3>1. CASE i = n + 1
      BY <3>1
    <3>2. CASE i # n + 1
      <4>1. i \in 0 .. n /\ g[i] = f[i]
        BY <3>2
      <4>2. f[i] = IF i = 0 THEN 0 ELSE Attachments!NumberAfter(list, i, f[i - 1])
        BY <2>1, <4>1 DEF IsNumbering
      <4>3. i # 0 => g[i - 1] = f[i - 1]
        BY <4>1
      <4>4. h[i] = IF i = 0 THEN 0 ELSE Attachments!NumberAfter(list, i, g[i - 1])
        OBVIOUS
      <4> HIDE DEF g, h
      <4> QED
        BY <4>1, <4>2, <4>3, <4>4
    <3> QED
      BY <3>1, <3>2
  <2>3. IsNumbering(list, n + 1, g)
    BY <2>2 DEF IsNumbering
  <2> HIDE DEF g
  <2> QED
    BY <2>3
<1> HIDE DEF G
<1>3. Nat \subseteq G
    BY <1>1, <1>2, SetInduction
<1> QED
    BY <1>3 DEF G

LEMMA NumbersAreNumbering ==
    ASSUME NEW list, Len(list) \in Nat
    PROVE  IsNumbering(list, Len(list), Attachments!Numbers(list))
<1> DEFINE F == CHOOSE f : IsNumbering(list, Len(list), f)
<1>1. IsNumbering(list, Len(list), F)
    BY NumbersExist
<1>2. Attachments!Numbers(list) = F
    BY DEF Attachments!Numbers, IsNumbering
<1> QED
    BY <1>1, <1>2

\* The numbers of two labels are two.
LEMMA NumbersRise ==
    ASSUME NEW list \in Seq(Entries), NamesAreNames
    PROVE  LET number == Attachments!Numbers(list)
           IN  /\ \A i \in DOMAIN list : number[i] \in Nat
               /\ \A i \in DOMAIN list : ~Attachments!IsAlone(list, i) =>
                    /\ Append(Attachments!NameOf(list[i]), number[i]) \notin Attachments!Reserved(list)
                    /\ \A j \in 1 .. i - 1 : number[j] < number[i]
<1> DEFINE f == Attachments!Numbers(list)
           N == Len(list)
           G == {n \in Nat : n <= N => f[n] \in Nat /\ \A j \in 0 .. n : f[j] \in Nat /\ f[j] <= f[n]}
<1>1. f[0] = 0 /\ \A i \in 1 .. N : f[i] = Attachments!NumberAfter(list, i, f[i - 1])
  <2>1. IsNumbering(list, N, f)
    BY NumbersAreNumbering
  <2> HIDE DEF f
  <2> QED
    BY <2>1 DEF IsNumbering
<1> HIDE DEF f
<1>2. 0 \in G
    BY <1>1
<1>3. ASSUME NEW n \in Nat, n \in G
      PROVE  n + 1 \in G
  <2> SUFFICES ASSUME n + 1 <= N PROVE f[n + 1] \in Nat /\ \A j \in 0 .. n + 1 : f[j] \in Nat /\ f[j] <= f[n + 1]
    OBVIOUS
  <2>1. f[n] \in Nat /\ \A j \in 0 .. n : f[j] \in Nat /\ f[j] <= f[n]
    BY <1>3
  <2>2. f[n + 1] = Attachments!NumberAfter(list, n + 1, f[n]) /\ n + 1 \in DOMAIN list
    BY <1>1
  <2>3. f[n + 1] \in Nat /\ f[n] <= f[n + 1]
    BY <2>1, <2>2, NumberGoesOn
  <2> QED
    BY <2>1, <2>3
<1>4. Nat \subseteq G
  <2> HIDE DEF G
  <2> QED
    BY <1>2, <1>3, SetInduction
<1>5. \A n \in 0 .. N : f[n] \in Nat /\ \A j \in 0 .. n : f[j] \in Nat /\ f[j] <= f[n]
    BY <1>4
<1>6. ASSUME NEW i \in DOMAIN list, ~Attachments!IsAlone(list, i)
      PROVE  /\ Append(Attachments!NameOf(list[i]), f[i]) \notin Attachments!Reserved(list)
             /\ \A j \in 1 .. i - 1 : f[j] < f[i]
  <2>1. i - 1 \in 0 .. N /\ f[i] = Attachments!NumberAfter(list, i, f[i - 1])
    BY <1>1
  <2>2. f[i - 1] \in Nat /\ \A j \in 1 .. i - 1 : f[j] \in Nat /\ f[j] <= f[i - 1]
    BY <1>5, <2>1
  <2>3. f[i - 1] < f[i] /\ Append(Attachments!NameOf(list[i]), f[i]) \notin Attachments!Reserved(list)
    BY <1>6, <2>1, <2>2, NumberGoesOn
  <2>4. f[i] \in Nat
    BY <1>5
  <2> QED
    BY <2>2, <2>3, <2>4
<1>7. \A i \in DOMAIN list : f[i] \in Nat
    BY <1>5
<1> QED
    BY <1>6, <1>7 DEF f

\* Whatever the names of the files: each has a label of its own, of its name.
LEMMA LabelsAreApart ==
    ASSUME NEW list \in Seq(Entries), NamesAreNames
    PROVE  LET labels == Attachments!Labels(list)
           IN  /\ DOMAIN labels = DOMAIN list
               /\ \A i, j \in DOMAIN list : labels[i] = labels[j] => i = j
               /\ \A i \in DOMAIN list : Attachments!IsPrefix(Attachments!NameOf(list[i]), labels[i])
<1> DEFINE number == Attachments!Numbers(list)
           labels == Attachments!Labels(list)
           Name(i) == Attachments!NameOf(list[i])
           Alone(i) == Attachments!IsAlone(list, i)
<1>1. /\ \A i \in DOMAIN list : number[i] \in Nat
      /\ \A i \in DOMAIN list : ~Alone(i) =>
           /\ Append(Name(i), number[i]) \notin Attachments!Reserved(list)
           /\ \A j \in 1 .. i - 1 : number[j] < number[i]
    BY NumbersRise
<1>2. /\ DOMAIN labels = DOMAIN list
      /\ \A i \in DOMAIN list : labels[i] = IF Alone(i) THEN Name(i) ELSE Append(Name(i), number[i])
    BY DEF Attachments!Labels
<1>3. \A i \in DOMAIN list : IsList(Name(i)) /\ Name(i) \in Attachments!Reserved(list)
    BY EntryIsNamed DEF Attachments!Reserved
\* Two of one name are not alone.
<1>4. \A i, j \in DOMAIN list : Alone(i) /\ Name(i) = Name(j) => i = j
  <2> SUFFICES ASSUME NEW i \in DOMAIN list, NEW j \in DOMAIN list, Name(i) = Name(j), i # j, Alone(i)
               PROVE  FALSE
    OBVIOUS
  <2> DEFINE S == Attachments!Named(list, Name(i))
  <2>1. S \subseteq 1 .. Len(list) /\ {i, j} \subseteq S
    BY DEF Attachments!Named
  <2>2. IsFiniteSet(S)
    <3>1. Len(list) \in Int /\ 1 \in Int
      OBVIOUS
    <3>2. IsFiniteSet(1 .. Len(list))
      BY <3>1, FS_Interval
    <3> HIDE DEF S
    <3> QED
      BY <2>1, <3>2, FS_Subset
  <2>3. Cardinality({i, j}) = 2
    <3> DEFINE both == {i} \cup {j}
    <3>1. IsFiniteSet({i}) /\ Cardinality({i}) = 1
      BY FS_Singleton
    <3>2. {i, j} = both /\ j \notin {i}
      OBVIOUS
    <3>3. Cardinality(both) = IF j \in {i} THEN Cardinality({i}) ELSE Cardinality({i}) + 1
      BY <3>1, FS_AddElement
    <3>4. Cardinality(both) = 2
      <4> HIDE DEF both
      <4> QED
        BY <3>1, <3>2, <3>3
    <3> HIDE DEF both
    <3> QED
      BY <3>2, <3>4
  <2>4. Cardinality(S) < 2
    BY SameCardinality DEF Attachments!IsAlone
  <2> HIDE DEF S
  <2>5. Cardinality(S) \in Nat /\ Cardinality({i, j}) <= Cardinality(S)
    BY <2>1, <2>2, FS_Subset, FS_CardinalityType
  <2> QED
    BY <2>3, <2>4, <2>5
<1> HIDE DEF number, labels, Name, Alone
<1>5. ASSUME NEW i \in DOMAIN list, NEW j \in DOMAIN list, labels[i] = labels[j], i # j
      PROVE  FALSE
  <2>1. CASE Alone(i) /\ Alone(j)
    BY <1>2, <1>4, <1>5, <2>1
  <2>2. CASE Alone(i) /\ ~Alone(j)
    BY <1>1, <1>2, <1>3, <1>5, <2>2
  <2>3. CASE ~Alone(i) /\ Alone(j)
    BY <1>1, <1>2, <1>3, <1>5, <2>3
  <2>4. CASE ~Alone(i) /\ ~Alone(j)
    <3>1. Append(Name(i), number[i]) = Append(Name(j), number[j])
      BY <1>2, <1>5, <2>4
    <3>2. number[i] = number[j]
      BY <1>1, <1>3, <3>1, NumberedNames
    <3>3. number[i] \in Nat /\ (i \in 1 .. j - 1 \/ j \in 1 .. i - 1)
      BY <1>1, <1>5
    <3> QED
      BY <1>1, <2>4, <3>2, <3>3
  <2> QED
    BY <2>1, <2>2, <2>3, <2>4
<1>6. ASSUME NEW i \in DOMAIN list
      PROVE  Attachments!IsPrefix(Name(i), labels[i])
  <2>1. number[i] \in Nat /\ IsList(Name(i))
    BY <1>1, <1>3
  <2>2. Attachments!IsPrefix(Name(i), Name(i)) /\ Attachments!IsPrefix(Name(i), Append(Name(i), number[i]))
    BY <2>1, NumberedName
  <2> QED
    BY <1>2, <2>2
<1> QED
    BY <1>2, <1>5, <1>6 DEF labels, Name

\* The function that SizeOf defines is a sum.
LEMMA SizeIsSum ==
    ASSUME NEW list, IsFiniteSet(DOMAIN list)
    PROVE  \E f : /\ IsSumOn(f, SUBSET DOMAIN list, [i \in DOMAIN list |-> list[i].size])
                  /\ Attachments!SizeOf(list) = f[DOMAIN list]
<1> DEFINE D == DOMAIN list
           w == [i \in D |-> list[i].size]
           IsIt(f) == f = [s \in SUBSET D |->
                              IF s = {} THEN 0
                              ELSE LET x == CHOOSE x \in s : TRUE
                                   IN  list[x].size + f[s \ {x}]]
           F == CHOOSE f : IsIt(f)
<1>1. ASSUME NEW s \in SUBSET D, s # {}
      PROVE  w[Some(s)] = list[Some(s)].size
    BY <1>1 DEF Some
<1>2. \E f : IsIt(f)
    <2>1. PICK f : IsSumOn(f, SUBSET D, w)
        BY SumExists
    <2>2. IsIt(f)
        BY <2>1, <1>1 DEF IsSumOn, Some
    <2> HIDE DEF IsIt
    <2> QED
        BY <2>2
<1>3. IsIt(F)
    <2> HIDE DEF IsIt
    <2> QED
        BY <1>2
<1>4. Attachments!SizeOf(list) = F[D]
    BY DEF Attachments!SizeOf, Attachments!MapThenSumSet, Attachments!MapThenFoldSet
<1> HIDE DEF F
<1>5. IsSumOn(F, SUBSET D, w)
    BY <1>3, <1>1 DEF IsSumOn, Some
<1> QED
    BY <1>4, <1>5

LEMMA SizeGrows ==
    ASSUME NEW list \in Seq(Entries), NEW a \in Entries
    PROVE  /\ Attachments!SizeOf(list) \in Nat
           /\ Attachments!SizeOf(Append(list, a)) = Attachments!SizeOf(list) + a.size
<1> DEFINE more == Append(list, a)
           n == Len(list) + 1
           D == 1 .. Len(list)
           M == 1 .. n
           v == [i \in DOMAIN list |-> list[i].size]
           w == [i \in DOMAIN more |-> more[i].size]
<1>1. DOMAIN list = D /\ DOMAIN more = M /\ M \ {n} = D /\ n \in M /\ D \in SUBSET M
    OBVIOUS
<1>2. IsFiniteSet(D) /\ IsFiniteSet(M)
  <2>1. 1 \in Int /\ Len(list) \in Int /\ n \in Int
    OBVIOUS
  <2> HIDE DEF n
  <2> QED
    BY <2>1, FS_Interval
<1>3. /\ more[n] = a /\ \A i \in D : more[i] = list[i]
      /\ \A i \in D : list[i].size \in Nat
      /\ a.size \in Nat
  <2>1. \A i \in D : list[i] \in Entries
    OBVIOUS
  <2> QED
    BY <2>1 DEF Entries
<1>4. w \in [M -> Nat] /\ w[n] = a.size /\ AgreeOn(v, w, D)
  <2> HIDE DEF more, D, M, n
  <2>1. \A i \in M : i = n \/ i \in D
    BY <1>1
  <2> QED
    BY <1>1, <1>3, <2>1 DEF AgreeOn
<1>5. PICK f : IsSumOn(f, SUBSET D, v) /\ Attachments!SizeOf(list) = f[D]
  <2> HIDE DEF D, M, n, more
  <2> QED
    BY <1>1, <1>2, SizeIsSum
<1>6. PICK g : IsSumOn(g, SUBSET M, w) /\ Attachments!SizeOf(more) = g[M]
  <2> HIDE DEF D, M, n, more
  <2> QED
    BY <1>1, <1>2, SizeIsSum
<1> HIDE DEF v, w, D, M, n, more
<1>7. f[D] = g[D]
    BY <1>1, <1>2, <1>4, <1>5, <1>6, SumAgrees
<1>8. g[M] = w[n] + g[M \ {n}]
    BY <1>1, <1>2, <1>4, <1>6, SumSplits
<1>9. g[D] \in Nat /\ a.size \in Nat
    BY <1>1, <1>2, <1>3, <1>4, <1>6, SumIsNumber
<1>10. g[M] = a.size + g[D]
    BY <1>1, <1>4, <1>8, Zenon
<1>11. Attachments!SizeOf(list) = g[D] /\ Attachments!SizeOf(more) = g[M]
    BY <1>5, <1>6, <1>7
<1>12. Attachments!SizeOf(list) \in Nat /\ Attachments!SizeOf(more) = Attachments!SizeOf(list) + a.size
    BY <1>9, <1>10, <1>11
<1> QED
    BY <1>12 DEF more

LEMMA NothingHasSize ==
    Attachments!SizeOf(<<>>) = 0
<1> DEFINE e == <<>>
<1>1. DOMAIN e = {}
    OBVIOUS
<1> HIDE DEF e
<1>2. IsFiniteSet(DOMAIN e)
    BY <1>1, FS_EmptySet
<1>3. PICK f : IsSumOn(f, SUBSET DOMAIN e, [i \in DOMAIN e |-> e[i].size]) /\ Attachments!SizeOf(e) = f[DOMAIN e]
    BY <1>2, SizeIsSum
<1>4. f[{}] = 0
    BY <1>1, <1>3 DEF IsSumOn
<1> QED
    BY <1>1, <1>3, <1>4 DEF e

\* However a turn's labels come about.
LEMMA LabelledAreApart ==
    ASSUME NEW list \in Seq(Entries), NamesAreNames, NEW names, IsList(names),
           Attachments!Labelled(list, names) # <<"missing">>
    PROVE  LET labels == Attachments!Labelled(list, names)
           IN  /\ DOMAIN labels = DOMAIN list
               /\ \A i, j \in DOMAIN list : labels[i] = labels[j] => i = j
               /\ \A i \in DOMAIN list : Attachments!IsPrefix(Attachments!NameOf(list[i]), labels[i])
<1>1. CASE names = <<>>
    BY <1>1, LabelsAreApart DEF Attachments!Labelled
<1>2. CASE names # <<>>
  <2>1. /\ Attachments!Labelled(list, names) = names
        /\ Len(names) = Len(list) /\ Attachments!IsInjective(names)
        /\ \A i \in DOMAIN list :
             \/ names[i] = Attachments!NameOf(list[i])
             \/ \E k \in 1 .. MaxCandidates : names[i] = Append(Attachments!NameOf(list[i]), k)
    BY <1>2 DEF Attachments!Labelled, Attachments!Missing
  <2>2. DOMAIN names = DOMAIN list
    BY <2>1 DEF IsList
  <2>3. \A i, j \in DOMAIN list : names[i] = names[j] => i = j
    BY <2>1, <2>2 DEF Attachments!IsInjective
  <2>4. ASSUME NEW i \in DOMAIN list
        PROVE  Attachments!IsPrefix(Attachments!NameOf(list[i]), names[i])
    <3>1. IsList(Attachments!NameOf(list[i]))
      BY EntryIsNamed
    <3>2. CASE names[i] = Attachments!NameOf(list[i])
      <4>1. 1 \in Nat
        OBVIOUS
      <4> QED
        BY <3>1, <3>2, <4>1, NumberedName
    <3>3. ASSUME NEW k \in 1 .. MaxCandidates, names[i] = Append(Attachments!NameOf(list[i]), k)
          PROVE  Attachments!IsPrefix(Attachments!NameOf(list[i]), names[i])
      <4>1. k \in Nat
        OBVIOUS
      <4> QED
        BY <3>1, <3>3, <4>1, NumberedName
    <3> QED
      BY <2>1, <3>2, <3>3
  <2> QED
    BY <2>1, <2>2, <2>3, <2>4
<1> QED
    BY <1>1, <1>2

-----------------------------------------------------------------------------
(* Files of a turn *)

\* The files of a list are of the first n paths, in the order of their first mention,
\* and all of them.
Listed(list, paths, n) ==
    /\ \A i \in DOMAIN list : \E m \in 1 .. n : paths[m] = list[i].file
    /\ \A i, j \in DOMAIN list : i < j =>
         \E m \in 1 .. n : paths[m] = list[i].file /\ \A k \in 1 .. m : paths[k] # list[j].file
Complete(list, paths, n) == \A m \in 1 .. n : \E i \in DOMAIN list : list[i].file = paths[m]

LEMMA ListedLonger ==
    ASSUME NEW list, NEW paths, NEW n \in Nat, Listed(list, paths, n)
    PROVE  Listed(list, paths, n + 1)
<1>1. \A m \in 1 .. n : m \in 1 .. n + 1
    OBVIOUS
<1> QED
    BY <1>1 DEF Listed

LEMMA ListedAppended ==
    ASSUME NEW list \in Seq(Entries), NEW a \in Entries, NEW paths, NEW n \in Nat,
           Listed(list, paths, n), paths[n + 1] = a.file, \A m \in 1 .. n : paths[m] # a.file
    PROVE  /\ Listed(Append(list, a), paths, n + 1)
           /\ Complete(list, paths, n) => Complete(Append(list, a), paths, n + 1)
<1> DEFINE more == Append(list, a)
           l == Len(list) + 1
<1>1. /\ DOMAIN more = 1 .. l /\ DOMAIN list = 1 .. l - 1 /\ l \in Nat /\ l \in DOMAIN more
      /\ more[l] = a /\ \A i \in DOMAIN list : i \in DOMAIN more /\ more[i] = list[i] /\ i # l
      /\ \A i \in DOMAIN more : i = l \/ i \in DOMAIN list
    OBVIOUS
<1> HIDE DEF more, l
<1>2. ASSUME NEW i \in DOMAIN more
      PROVE  \E m \in 1 .. n + 1 : paths[m] = more[i].file
    BY <1>1 DEF Listed
<1>3. ASSUME NEW i \in DOMAIN more, NEW j \in DOMAIN more, i < j
      PROVE  \E m \in 1 .. n + 1 : paths[m] = more[i].file /\ \A k \in 1 .. m : paths[k] # more[j].file
  <2>1. i \in DOMAIN list /\ more[i] = list[i]
    BY <1>1, <1>3
  <2>2. CASE j = l
    <3>1. PICK m \in 1 .. n : paths[m] = list[i].file
      BY <2>1 DEF Listed
    <3>2. \A k \in 1 .. m : k \in 1 .. n
      OBVIOUS
    <3> QED
      BY <1>1, <2>1, <2>2, <3>1, <3>2
  <2>3. CASE j # l
    <3>1. j \in DOMAIN list /\ more[j] = list[j]
      BY <1>1, <2>3
    <3>2. PICK m \in 1 .. n : paths[m] = list[i].file /\ \A k \in 1 .. m : paths[k] # list[j].file
      BY <1>3, <2>1, <3>1 DEF Listed
    <3>3. m \in 1 .. n + 1
      OBVIOUS
    <3> QED
      BY <2>1, <3>1, <3>2, <3>3
  <2> QED
    BY <2>2, <2>3
<1>4. ASSUME Complete(list, paths, n), NEW m \in 1 .. n + 1
      PROVE  \E i \in DOMAIN more : more[i].file = paths[m]
    BY <1>1, <1>4 DEF Complete
<1>5. Listed(more, paths, n + 1)
    BY <1>2, <1>3 DEF Listed
<1>6. Complete(list, paths, n) => Complete(more, paths, n + 1)
    BY <1>4 DEF Complete
<1> QED
    BY <1>5, <1>6 DEF more

\* All of them, in order: what was asked for.
LEMMA ListedAreAsked ==
    ASSUME NEW list \in Seq(Entries), NEW paths, IsList(paths),
           Listed(list, paths, Len(paths)), Complete(list, paths, Len(paths))
    PROVE  Attachments!AreAsked(Attachments!FilesOf(list), paths)
<1> DEFINE files == Attachments!FilesOf(list)
<1>1. DOMAIN files = DOMAIN list /\ \A i \in DOMAIN list : files[i] = list[i].file
    BY DEF Attachments!FilesOf
<1>2. DOMAIN paths = 1 .. Len(paths)
    BY DEF IsList
<1> HIDE DEF files
<1>3. Attachments!Range(files) = Attachments!Range(paths)
  <2>1. ASSUME NEW i \in DOMAIN files
        PROVE  \E m \in DOMAIN paths : files[i] = paths[m]
    BY <1>1, <1>2 DEF Listed
  <2>2. ASSUME NEW m \in DOMAIN paths
        PROVE  \E i \in DOMAIN files : paths[m] = files[i]
    <3>1. m \in 1 .. Len(paths)
      BY <1>2
    <3>2. PICK i \in DOMAIN list : list[i].file = paths[m]
      BY <3>1 DEF Complete
    <3> QED
      BY <1>1, <3>2
  <2> QED
    BY <2>1, <2>2 DEF Attachments!Range
<1>4. ASSUME NEW i \in DOMAIN files, NEW j \in DOMAIN files, i < j
      PROVE  \E m \in DOMAIN paths : paths[m] = files[i] /\ \A k \in 1 .. m : paths[k] # files[j]
  <2>1. i \in DOMAIN list /\ j \in DOMAIN list /\ files[i] = list[i].file /\ files[j] = list[j].file
    BY <1>1
  <2>2. PICK m \in 1 .. Len(paths) : paths[m] = list[i].file /\ \A k \in 1 .. m : paths[k] # list[j].file
    BY <1>4, <2>1 DEF Listed
  <2>3. m \in DOMAIN paths
    BY <1>2
  <2> QED
    BY <2>1, <2>2, <2>3
<1> QED
    BY <1>3, <1>4 DEF Attachments!AreAsked, files

\* Where a call is with its files.
AskStages == {"idle", "waiting", "checking", "reading", "built", "running", "refused", "shown"}
PathsOf(c) == wants[c].paths
AskerTypes(c) ==
    /\ pc[c] \in AskStages
    /\ IsList(PathsOf(c)) /\ IsList(wants[c].names)
    /\ \A i \in DOMAIN PathsOf(c) : PathsOf(c)[i] \in Files \cup {"missing"}
    /\ next[c] \in 1 .. Len(PathsOf(c)) + 1
    /\ prepared[c] \in Seq(Entries)
    /\ issues[c] \in Nat

\* Every file that was read is one of the paths so far, and if there was no issue they all
\* were; the one that is read now is new.
FilesSoFar(c) ==
    /\ Listed(prepared[c], PathsOf(c), next[c] - 1)
    /\ issues[c] = 0 => Complete(prepared[c], PathsOf(c), next[c] - 1)
    /\ pc[c] = "reading" =>
         /\ next[c] <= Len(PathsOf(c)) /\ PathsOf(c)[next[c]] \in Files
         /\ \A m \in 1 .. next[c] - 1 : PathsOf(c)[m] # PathsOf(c)[next[c]]
         /\ Len(prepared[c]) < MaxAttachments

Bounded(c) ==
    /\ Len(prepared[c]) <= MaxAttachments /\ Attachments!SizeOf(prepared[c]) <= MaxTotal
    /\ \A i \in DOMAIN prepared[c] : prepared[c][i].size <= MaxFile

\* What was sent is all of it, and stays as it was.
SentIsAll(c) ==
    sent[c] # <<>> =>
        /\ pc[c] \in {"running", "refused", "shown"}
        /\ next[c] = Len(PathsOf(c)) + 1 /\ issues[c] = 0
        /\ DOMAIN sent[c] = DOMAIN prepared[c]
        /\ \A i \in DOMAIN sent[c] :
             /\ sent[c][i].file = prepared[c][i].file /\ sent[c][i].as \in {"text", "snapshot"}
             /\ Attachments!IsPrefix(Attachments!NameOf(sent[c][i]), sent[c][i].label)
        /\ \A i, j \in DOMAIN sent[c] : sent[c][i].label = sent[c][j].label => i = j

AskerInv(c) == AskerTypes(c) /\ FilesSoFar(c) /\ Bounded(c) /\ SentIsAll(c)

\* Codex works on a turn whose call still waits only while the session runs it.
CodexIsActive ==
    \A c \in Askers :
        /\ codex[c] \in {"none", "asked", "turn", "ended"}
        /\ codex[c] # "none" => pc[c] \in {"running", "refused", "shown"}
        /\ codex[c] \in {"asked", "turn"} /\ c \notin abandoned => active = c

AttachTypes ==
    /\ disk = [f \in Files |-> disk[f]] /\ \A f \in Files : IsFile(disk[f])
    /\ DOMAIN pc = Askers /\ DOMAIN next = Askers /\ DOMAIN prepared = Askers
    /\ DOMAIN issues = Askers /\ DOMAIN sent = Askers /\ DOMAIN codex = Askers

AttachInv == AttachTypes /\ CodexIsActive /\ \A c \in Askers : AskerInv(c)

LEMMA AttachBegins ==
    ASSUME Attachments!Init
    PROVE  AttachInv
<1>1. /\ pc = [c \in Askers |-> "idle"] /\ next = [c \in Askers |-> 1]
      /\ prepared = [c \in Askers |-> <<>>] /\ issues = [c \in Askers |-> 0]
      /\ sent = [c \in Askers |-> <<>>] /\ codex = [c \in Askers |-> "none"]
    BY DEF Attachments!Init
<1>2. PICK scene \in Scenes : wants = scene.wants /\ disk = scene.disk
    BY DEF Attachments!Init
<1>3. AttachTypes
    BY <1>1, <1>2, ScenesAreKnown DEF AttachTypes
<1>4. CodexIsActive
    BY <1>1 DEF CodexIsActive
<1>5. ASSUME NEW c \in Askers
      PROVE  AskerInv(c)
  <2>1. pc[c] = "idle" /\ next[c] = 1 /\ prepared[c] = <<>> /\ issues[c] = 0 /\ sent[c] = <<>>
    BY <1>1
  <2>2. AskerTypes(c)
    <3>1. /\ IsList(PathsOf(c)) /\ IsList(wants[c].names)
          /\ \A i \in DOMAIN PathsOf(c) : PathsOf(c)[i] \in Files \cup {"missing"}
      BY <1>2, ScenesAreKnown DEF PathsOf
    <3>2. Len(PathsOf(c)) \in Nat
      BY <3>1 DEF IsList
    <3> QED
      BY <2>1, <3>1, <3>2 DEF AskerTypes, AskStages
  <2>3. FilesSoFar(c)
    BY <2>1 DEF FilesSoFar, Listed, Complete
  <2>4. Bounded(c)
    BY <2>1, NothingHasSize, ScenesAreKnown DEF Bounded
  <2>5. SentIsAll(c)
    BY <2>1 DEF SentIsAll
  <2> QED
    BY <2>2, <2>3, <2>4, <2>5 DEF AskerInv
<1> QED
    BY <1>3, <1>4, <1>5 DEF AttachInv

\* Of a call whose own part a step leaves alone, whatever is written to the files.
LEMMA AskerStays ==
    ASSUME NEW c \in Askers, AskerInv(c), UNCHANGED wants, pc'[c] = pc[c], next'[c] = next[c],
           prepared'[c] = prepared[c], issues'[c] = issues[c], sent'[c] = sent[c],
           \A f \in Files : disk'[f].name = disk[f].name
    PROVE  AskerInv(c)'
<1>1. AskerTypes(c) /\ FilesSoFar(c) /\ Bounded(c) /\ SentIsAll(c)
    BY DEF AskerInv
<1>2. AskerTypes(c)'
    BY <1>1 DEF AskerTypes, PathsOf
<1>3. FilesSoFar(c)'
    BY <1>1 DEF FilesSoFar, PathsOf
<1>4. Bounded(c)'
    BY <1>1 DEF Bounded
<1>5. SentIsAll(c)'
  <2>1. ASSUME sent[c] # <<>>, NEW i \in DOMAIN sent[c]
        PROVE  Attachments!NameOf(sent[c][i])' = Attachments!NameOf(sent[c][i])
    <3>1. i \in DOMAIN prepared[c] /\ sent[c][i].file = prepared[c][i].file
      BY <1>1, <2>1 DEF SentIsAll
    <3>2. prepared[c][i] \in Entries
      BY <1>1, <3>1 DEF AskerTypes
    <3>3. sent[c][i].file \in Files
      BY <3>1, <3>2 DEF Entries
    <3> QED
      BY <3>3 DEF Attachments!NameOf
  <2>2. PathsOf(c)' = PathsOf(c)
    BY DEF PathsOf
  <2> QED
    BY <1>1, <2>1, <2>2 DEF SentIsAll
<1> QED
    BY <1>2, <1>3, <1>4, <1>5 DEF AskerInv

\* A step of a call's own that only takes it from one stage to another.
LEMMA AskerGoesOn ==
    ASSUME NEW c \in Askers, AskerInv(c), NEW to \in AskStages, pc'[c] = to, to # "reading",
           sent[c] = <<>> \/ to \in {"refused", "shown"},
           UNCHANGED <<wants, disk>>, next'[c] = next[c], prepared'[c] = prepared[c],
           issues'[c] = issues[c], sent'[c] = sent[c]
    PROVE  AskerInv(c)'
<1>1. AskerTypes(c) /\ FilesSoFar(c) /\ Bounded(c) /\ SentIsAll(c)
    BY DEF AskerInv
<1>2. AskerTypes(c)'
    BY <1>1 DEF AskerTypes, PathsOf
<1>3. FilesSoFar(c)'
    BY <1>1 DEF FilesSoFar, PathsOf
<1>4. Bounded(c)'
    BY <1>1 DEF Bounded
<1>5. SentIsAll(c)'
    BY <1>1 DEF SentIsAll, PathsOf, Attachments!NameOf
<1> QED
    BY <1>2, <1>3, <1>4, <1>5 DEF AskerInv

LEMMA AttachChecks ==
    ASSUME AttachInv, NEW c \in Askers, Attachments!Check(c)
    PROVE  AskerInv(c)'
<1> DEFINE f == PathsOf(c)[next[c]]
           n == next[c]
<1>1. AskerTypes(c) /\ FilesSoFar(c) /\ Bounded(c) /\ SentIsAll(c) /\ AttachTypes
    BY DEF AttachInv, AskerInv
<1>2. /\ pc[c] = "checking" /\ n <= Len(PathsOf(c))
      /\ UNCHANGED <<wants, disk, prepared, sent>>
    BY DEF Attachments!Check, PathsOf
<1>3. /\ n \in Nat /\ n - 1 \in Nat /\ n - 1 + 1 = n /\ n \in 1 .. Len(PathsOf(c)) /\ n \in DOMAIN PathsOf(c)
      /\ n + 1 \in 1 .. Len(PathsOf(c)) + 1 /\ n + 1 - 1 = n
    BY <1>1, <1>2 DEF AskerTypes, IsList
<1>4. sent[c] = <<>>
    BY <1>1, <1>2 DEF SentIsAll
<1>5. Bounded(c)' /\ SentIsAll(c)'
    BY <1>1, <1>2, <1>4 DEF Bounded, SentIsAll
<1>6. ASSUME UNCHANGED pc, next' = [next EXCEPT ![c] = n + 1],
             \/ issues' = [issues EXCEPT ![c] = issues[c] + 1]
             \/ UNCHANGED issues /\ \E m \in 1 .. n - 1 : PathsOf(c)[m] = f
      PROVE  AskerInv(c)'
  <2>1. pc'[c] = "checking" /\ next'[c] = n + 1
    BY <1>1, <1>2, <1>6 DEF AttachTypes
  <2>2. issues'[c] \in Nat /\ (issues'[c] = 0 => issues[c] = 0 /\ \E m \in 1 .. n - 1 : PathsOf(c)[m] = f)
    BY <1>1, <1>6 DEF AttachTypes, AskerTypes
  <2>3. AskerTypes(c)'
    BY <1>1, <1>2, <1>3, <2>1, <2>2 DEF AskerTypes, PathsOf, AskStages
  <2>4. Listed(prepared[c], PathsOf(c), n)
    <3>1. Listed(prepared[c], PathsOf(c), n - 1)
      BY <1>1 DEF FilesSoFar
    <3> HIDE DEF n
    <3> QED
      BY <1>3, <3>1, ListedLonger
  <2>5. ASSUME issues'[c] = 0
        PROVE  Complete(prepared[c], PathsOf(c), n)
    <3>1. Complete(prepared[c], PathsOf(c), n - 1) /\ \E m \in 1 .. n - 1 : PathsOf(c)[m] = f
      BY <1>1, <2>2, <2>5 DEF FilesSoFar
    <3>2. \A m \in 1 .. n : m \in 1 .. n - 1 \/ m = n
      BY <1>3
    <3> QED
      BY <3>1, <3>2 DEF Complete
  <2>6. FilesSoFar(c)'
    BY <1>2, <1>3, <2>1, <2>4, <2>5 DEF FilesSoFar, PathsOf
  <2> QED
    BY <1>5, <2>3, <2>6 DEF AskerInv
<1>7. ASSUME pc' = [pc EXCEPT ![c] = "reading"], UNCHANGED <<next, issues>>,
             f # "missing", \A m \in 1 .. n - 1 : PathsOf(c)[m] # f, Len(prepared[c]) < MaxAttachments
      PROVE  AskerInv(c)'
  <2>1. pc'[c] = "reading"
    BY <1>1, <1>7 DEF AttachTypes
  <2>2. AskerTypes(c)'
    BY <1>1, <1>2, <1>7, <2>1 DEF AskerTypes, PathsOf, AskStages
  <2>3. f \in Files
    BY <1>1, <1>3, <1>7 DEF AskerTypes
  <2>4. FilesSoFar(c)'
    BY <1>1, <1>2, <1>7, <2>1, <2>3 DEF FilesSoFar, PathsOf
  <2> QED
    BY <1>5, <2>2, <2>4 DEF AskerInv
<1>8. Attachments!Current(c) = f /\ (Attachments!Seen(c) <=> \E m \in 1 .. n - 1 : PathsOf(c)[m] = f)
    BY DEF Attachments!Current, Attachments!Seen, PathsOf
<1>9. CASE f # "missing" /\ Attachments!Seen(c)
  <2>1. UNCHANGED <<pc, issues>> /\ next' = [next EXCEPT ![c] = n + 1]
    BY <1>8, <1>9 DEF Attachments!Check, Attachments!Skip, Attachments!Missing
  <2> QED
    BY <1>6, <1>8, <1>9, <2>1
<1>10. CASE ~(f # "missing" /\ Attachments!Seen(c))
  <2>1. \/ /\ UNCHANGED pc /\ next' = [next EXCEPT ![c] = n + 1]
           /\ issues' = [issues EXCEPT ![c] = issues[c] + 1]
        \/ /\ pc' = [pc EXCEPT ![c] = "reading"] /\ UNCHANGED <<next, issues>>
           /\ f # "missing" /\ ~(Len(prepared[c]) >= MaxAttachments)
    BY <1>8, <1>10, Zenon DEF Attachments!Check, Attachments!Skip, Attachments!Issue, Attachments!Goto, Attachments!Missing
  <2>2. ~(Len(prepared[c]) >= MaxAttachments) => Len(prepared[c]) < MaxAttachments
    BY <1>1, ScenesAreKnown DEF AskerTypes
  <2> QED
    BY <1>6, <1>7, <1>8, <1>10, <2>1, <2>2
<1> QED
    BY <1>9, <1>10

LEMMA AttachReads ==
    ASSUME AttachInv, NEW c \in Askers, Attachments!Read(c)
    PROVE  AskerInv(c)'
<1> DEFINE f == PathsOf(c)[next[c]]
           n == next[c]
           a == [file |-> f, size |-> disk[f].size, version |-> disk[f].version]
<1>1. AskerTypes(c) /\ FilesSoFar(c) /\ Bounded(c) /\ SentIsAll(c) /\ AttachTypes
    BY DEF AttachInv, AskerInv
<1>2. /\ pc[c] = "reading" /\ pc' = [pc EXCEPT ![c] = "checking"] /\ next' = [next EXCEPT ![c] = n + 1]
      /\ UNCHANGED <<wants, disk, sent>>
    BY DEF Attachments!Read, Attachments!Goto
<1>3. /\ n \in Nat /\ n - 1 \in Nat /\ n - 1 + 1 = n
      /\ n + 1 \in 1 .. Len(PathsOf(c)) + 1 /\ n + 1 - 1 = n
      /\ f \in Files /\ \A m \in 1 .. n - 1 : PathsOf(c)[m] # f
    BY <1>1, <1>2 DEF AskerTypes, FilesSoFar, IsList
<1>4. sent[c] = <<>> /\ SentIsAll(c)'
    BY <1>1, <1>2 DEF SentIsAll
<1>5. pc'[c] = "checking" /\ next'[c] = n + 1
    BY <1>1, <1>2 DEF AttachTypes
<1>6. IsFile(disk[f])
    BY <1>1, <1>3 DEF AttachTypes
<1>7. a \in Entries
    BY <1>3, <1>6 DEF Entries, IsFile
<1>8. Listed(prepared[c], PathsOf(c), n - 1) /\ (issues[c] = 0 => Complete(prepared[c], PathsOf(c), n - 1))
    BY <1>1 DEF FilesSoFar
<1>9. prepared[c] \in Seq(Entries)
    BY <1>1 DEF AskerTypes
<1>10. ASSUME prepared' = [prepared EXCEPT ![c] = Append(prepared[c], a)], UNCHANGED issues,
              disk[f].size <= MaxFile, disk[f].size <= MaxTotal - Attachments!SizeOf(prepared[c])
       PROVE  AskerInv(c)'
  <2>1. prepared'[c] = Append(prepared[c], a)
    BY <1>1, <1>10 DEF AttachTypes
  <2> HIDE DEF a
  <2>2. prepared'[c] \in Seq(Entries) /\ Len(prepared'[c]) = Len(prepared[c]) + 1
    BY <1>7, <1>9, <2>1
  <2>3. AskerTypes(c)'
    BY <1>1, <1>2, <1>3, <1>5, <1>10, <2>2 DEF AskerTypes, PathsOf, AskStages
  <2>4. a.file = f /\ a.size = disk[f].size
    BY DEF a
  <2>5. /\ Listed(prepared'[c], PathsOf(c), n)
        /\ Complete(prepared[c], PathsOf(c), n - 1) => Complete(prepared'[c], PathsOf(c), n)
    <3> HIDE DEF n, f
    <3>1. PathsOf(c)[n] = a.file
      BY <2>4 DEF n, f
    <3>2. \A m \in 1 .. n - 1 : PathsOf(c)[m] # a.file
      BY <1>3, <2>4
    <3>3. PathsOf(c)[n - 1 + 1] = a.file
      BY <1>3, <3>1
    <3>4. /\ Listed(Append(prepared[c], a), PathsOf(c), n - 1 + 1)
          /\ Complete(prepared[c], PathsOf(c), n - 1) => Complete(Append(prepared[c], a), PathsOf(c), n - 1 + 1)
      BY <1>3, <1>7, <1>8, <1>9, <3>2, <3>3, ListedAppended
    <3> QED
      BY <1>3, <2>1, <3>4
  <2>6. FilesSoFar(c)'
    BY <1>2, <1>3, <1>5, <1>8, <1>10, <2>5 DEF FilesSoFar, PathsOf
  <2>7. /\ Attachments!SizeOf(prepared[c]) \in Nat
        /\ Attachments!SizeOf(prepared'[c]) = Attachments!SizeOf(prepared[c]) + a.size
    BY <1>7, <1>9, <2>1, SizeGrows
  <2>8. Attachments!SizeOf(prepared'[c]) <= MaxTotal
    BY <1>6, <1>10, <2>4, <2>7, ScenesAreKnown DEF IsFile
  <2>9. \A i \in DOMAIN prepared'[c] : prepared'[c][i].size <= MaxFile
    <3> SUFFICES ASSUME NEW i \in DOMAIN prepared'[c] PROVE prepared'[c][i].size <= MaxFile
      OBVIOUS
    <3>1. \/ i \in DOMAIN prepared[c] /\ prepared'[c][i] = prepared[c][i]
          \/ prepared'[c][i] = a
      BY <1>7, <1>9, <2>1
    <3> QED
      BY <1>1, <1>10, <2>4, <3>1 DEF Bounded
  <2>10. Len(prepared'[c]) <= MaxAttachments
    BY <1>1, <1>2, <1>9, <2>2, ScenesAreKnown DEF FilesSoFar
  <2>11. Bounded(c)'
    BY <2>8, <2>9, <2>10 DEF Bounded
  <2> QED
    BY <1>4, <2>3, <2>6, <2>11 DEF AskerInv
<1>11. ASSUME UNCHANGED prepared, issues' = [issues EXCEPT ![c] = issues[c] + 1]
       PROVE  AskerInv(c)'
  <2>1. issues'[c] \in Nat /\ issues'[c] # 0
    BY <1>1, <1>11 DEF AttachTypes, AskerTypes
  <2>2. AskerTypes(c)'
    BY <1>1, <1>2, <1>3, <1>5, <1>11, <2>1 DEF AskerTypes, PathsOf, AskStages
  <2>3. Listed(prepared[c], PathsOf(c), n)
    <3> HIDE DEF n
    <3> QED
      BY <1>3, <1>8, ListedLonger
  <2>4. FilesSoFar(c)'
    BY <1>2, <1>3, <1>5, <1>11, <2>1, <2>3 DEF FilesSoFar, PathsOf
  <2>5. Bounded(c)'
    BY <1>1, <1>11 DEF Bounded
  <2> QED
    BY <1>4, <2>2, <2>4, <2>5 DEF AskerInv
<1>12. Attachments!Current(c) = f /\ Attachments!Total(c) = Attachments!SizeOf(prepared[c])
    BY DEF Attachments!Current, PathsOf, Attachments!Total
<1>13. \/ /\ prepared' = [prepared EXCEPT ![c] = Append(prepared[c], a)] /\ UNCHANGED issues
          /\ disk[f].size <= MaxFile /\ disk[f].size <= MaxTotal - Attachments!SizeOf(prepared[c])
       \/ UNCHANGED prepared /\ issues' = [issues EXCEPT ![c] = issues[c] + 1]
    BY <1>12, Zenon DEF Attachments!Read, Attachments!FitsAsRead, Attachments!Issue
<1> QED
    BY <1>10, <1>11, <1>13

LEMMA AttachBuilds ==
    ASSUME AttachInv, NEW c \in Askers, Attachments!Build(c)
    PROVE  AskerInv(c)'
<1> DEFINE list == prepared[c]
           labels == Attachments!Labelled(list, wants[c].names)
           input == [i \in DOMAIN list |->
                       [label |-> labels[i], file |-> list[i].file, as |-> Attachments!SentAs(list[i])]]
<1>1. AskerTypes(c) /\ FilesSoFar(c) /\ Bounded(c) /\ AttachTypes
    BY DEF AttachInv, AskerInv
<1>2. /\ pc[c] = "checking" /\ next[c] > Len(PathsOf(c)) /\ Attachments!Issues(c) = 0
      /\ labels # <<"missing">>
      /\ sent' = [sent EXCEPT ![c] = input] /\ pc' = [pc EXCEPT ![c] = "running"]
      /\ UNCHANGED <<wants, disk, next, prepared, issues>>
    BY DEF Attachments!Build, Attachments!Prepared, Attachments!Goto, Attachments!Missing, PathsOf
<1>3. issues[c] = 0
    BY <1>1, <1>2, ScenesAreKnown DEF Attachments!Issues, AskerTypes
<1>4. next[c] = Len(PathsOf(c)) + 1
    BY <1>1, <1>2 DEF AskerTypes, IsList
<1>5. pc'[c] = "running" /\ sent'[c] = input
    BY <1>1, <1>2 DEF AttachTypes
<1>6. list \in Seq(Entries) /\ NamesAreNames /\ IsList(wants[c].names)
    BY <1>1 DEF AskerTypes, AttachTypes, NamesAreNames, IsFile
<1>7. /\ \A i, j \in DOMAIN list : labels[i] = labels[j] => i = j
      /\ \A i \in DOMAIN list : Attachments!IsPrefix(Attachments!NameOf(list[i]), labels[i])
  <2> HIDE DEF list
  <2> QED
    BY <1>2, <1>6, LabelledAreApart
<1>8. AskerTypes(c)' /\ FilesSoFar(c)' /\ Bounded(c)'
    BY <1>1, <1>2, <1>5 DEF AskerTypes, AskStages, FilesSoFar, Bounded, PathsOf
<1>9. ASSUME NEW i \in DOMAIN input
      PROVE  /\ input[i].file = list[i].file /\ input[i].as \in {"text", "snapshot"}
             /\ input[i].label = labels[i] /\ i \in DOMAIN list
  <2> HIDE DEF list, labels
  <2> QED
    BY DEF Attachments!SentAs
<1>10. DOMAIN input = DOMAIN list
    OBVIOUS
<1> HIDE DEF input, labels
<1>11. ASSUME NEW i \in DOMAIN input
       PROVE  Attachments!IsPrefix(disk'[input[i].file].name, input[i].label)
  <2>1. disk'[input[i].file].name = Attachments!NameOf(list[i])
    BY <1>2, <1>9 DEF Attachments!NameOf
  <2> QED
    BY <1>7, <1>9, <2>1
<1>12. SentIsAll(c)'
  <2>1. pc'[c] \in {"running", "refused", "shown"}
    BY <1>5
  <2>2. (next[c] = Len(PathsOf(c)) + 1 /\ issues[c] = 0)'
    BY <1>2, <1>3, <1>4 DEF PathsOf
  <2>3. DOMAIN sent'[c] = DOMAIN prepared'[c]
    BY <1>2, <1>5, <1>10
  <2>4. ASSUME NEW i \in DOMAIN sent'[c]
        PROVE  (/\ sent[c][i].file = prepared[c][i].file /\ sent[c][i].as \in {"text", "snapshot"}
                /\ Attachments!IsPrefix(Attachments!NameOf(sent[c][i]), sent[c][i].label))'
    <3>1. Attachments!NameOf(sent[c][i])' = disk'[input[i].file].name
      BY <1>5 DEF Attachments!NameOf
    <3>2. (Attachments!IsPrefix(Attachments!NameOf(sent[c][i]), sent[c][i].label))'
      BY <1>5, <1>11, <2>4, <3>1 DEF Attachments!IsPrefix
    <3>3. (sent[c][i].file = prepared[c][i].file /\ sent[c][i].as \in {"text", "snapshot"})'
      BY <1>2, <1>5, <1>9, <2>4
    <3> QED
      BY <3>2, <3>3
  <2>5. (\A i, j \in DOMAIN sent[c] : sent[c][i].label = sent[c][j].label => i = j)'
    BY <1>5, <1>7, <1>9
  <2> QED
    BY <2>1, <2>2, <2>3, <2>4, <2>5 DEF SentIsAll
<1> QED
    BY <1>8, <1>12 DEF AskerInv

LEMMA AttachTypesStay ==
    ASSUME AttachTypes, Attachments!Next
    PROVE  AttachTypes'
<1>1. ASSUME NEW f \in Files, Attachments!WriteFile(f)
      PROVE  AttachTypes'
  <2>1. PICK size \in 1 .. MaxTotal, sound \in BOOLEAN :
          disk' = [disk EXCEPT ![f].size = size, ![f].sound = sound, ![f].version = @ + 1]
    BY <1>1 DEF Attachments!WriteFile
  <2> DEFINE r == [kind |-> disk[f].kind, size |-> size, sound |-> sound,
                   version |-> disk[f].version + 1, name |-> disk[f].name]
  <2>2. IsFile(disk[f])
    BY DEF AttachTypes
  <2>3. disk'[f] = r
    <3> DEFINE r1 == [disk[f] EXCEPT !.size = size]
               r2 == [r1 EXCEPT !.sound = sound]
               r3 == [r2 EXCEPT !.version = disk[f].version + 1]
    <3>1. disk' = [disk EXCEPT ![f] = [disk[f] EXCEPT !.size = size, !.sound = sound, !.version = @ + 1]]
      BY <2>1
    <3>2. disk'[f] = [disk[f] EXCEPT !.size = size, !.sound = sound, !.version = @ + 1]
      BY <3>1 DEF AttachTypes
    <3>3. [disk[f] EXCEPT !.size = size, !.sound = sound, !.version = @ + 1] = r3
      BY <2>2 DEF IsFile
    <3>4. r1 = [kind |-> disk[f].kind, size |-> size, sound |-> disk[f].sound,
                version |-> disk[f].version, name |-> disk[f].name]
      BY <2>2 DEF IsFile
    <3>5. r2 = [kind |-> disk[f].kind, size |-> size, sound |-> sound,
                version |-> disk[f].version, name |-> disk[f].name]
      <4> HIDE DEF r1
      <4> QED
        BY <3>4
    <3>6. r3 = r
      <4> HIDE DEF r2
      <4> QED
        BY <3>5
    <3> QED
      BY <3>2, <3>3, <3>6
  <2>4. IsFile(r)
    <3>1. size \in Nat /\ disk[f].version + 1 \in Nat /\ IsList(disk[f].name)
      BY <2>2 DEF IsFile
    <3> QED
      BY <3>1 DEF IsFile
  <2>5. /\ disk' = [g \in Files |-> disk'[g]]
        /\ \A g \in Files : g # f => disk'[g] = disk[g]
    BY <2>1 DEF AttachTypes
  <2> HIDE DEF r
  <2>6. \A g \in Files : IsFile(disk'[g])
    BY <2>3, <2>4, <2>5 DEF AttachTypes
  <2> QED
    BY <1>1, <2>5, <2>6 DEF AttachTypes, Attachments!WriteFile, IsFile
<1>2. ASSUME NEW c \in Askers,
             \/ Attachments!Request(c) \/ Attachments!Acquire(c) \/ Attachments!Busy(c) \/ Attachments!Check(c)
             \/ Attachments!Read(c) \/ Attachments!Refuse(c) \/ Attachments!Build(c) \/ Attachments!Begin(c)
             \/ Attachments!BeginFails(c) \/ Attachments!StartTurn(c) \/ Attachments!CodexBegins(c)
             \/ Attachments!Started(c) \/ Attachments!StartFails(c) \/ Attachments!StartTimesOut(c)
             \/ Attachments!ActivationFails(c) \/ Attachments!CodexEnds(c) \/ Attachments!TurnIsOver(c)
             \/ Attachments!Watchdog(c) \/ Attachments!EarlierLoss(c)
      PROVE  AttachTypes'
  <2>1. /\ UNCHANGED disk /\ DOMAIN pc' = DOMAIN pc /\ DOMAIN next' = DOMAIN next
        /\ DOMAIN prepared' = DOMAIN prepared /\ DOMAIN issues' = DOMAIN issues
        /\ DOMAIN sent' = DOMAIN sent /\ DOMAIN codex' = DOMAIN codex
    BY <1>2 DEF Attachments!Request, Attachments!Acquire, Attachments!Busy, Attachments!Check,
        Attachments!Read, Attachments!Refuse, Attachments!Build, Attachments!Begin, Attachments!BeginFails,
        Attachments!StartTurn, Attachments!CodexBegins, Attachments!Started, Attachments!StartFails,
        Attachments!StartTimesOut, Attachments!ActivationFails, Attachments!CodexEnds, Attachments!TurnIsOver,
        Attachments!Watchdog, Attachments!EarlierLoss, Attachments!Goto, Attachments!Skip, Attachments!Issue,
        Attachments!Leave
  <2> QED
    BY <2>1 DEF AttachTypes, IsFile
<1> QED
    BY <1>1, <1>2 DEF Attachments!Next

LEMMA CodexStaysActive ==
    ASSUME AttachTypes, CodexIsActive, Attachments!Next
    PROVE  CodexIsActive'
<1>1. ASSUME NEW f \in Files, Attachments!WriteFile(f)
      PROVE  CodexIsActive'
    BY <1>1 DEF Attachments!WriteFile, CodexIsActive
<1> USE DEF CodexIsActive, AttachTypes, Attachments!Goto, Attachments!Leave, Attachments!LetGo, Attachments!Abandon
<1>2. ASSUME NEW c \in Askers,
             \/ Attachments!Request(c) \/ Attachments!Acquire(c) \/ Attachments!Busy(c)
             \/ Attachments!Refuse(c) \/ Attachments!Build(c)
      PROVE  CodexIsActive'
    BY <1>2 DEF Attachments!Request, Attachments!Acquire, Attachments!Busy, Attachments!Refuse, Attachments!Build,
        Attachments!Prepared
<1>3. ASSUME NEW c \in Askers, Attachments!Check(c) \/ Attachments!Read(c)
      PROVE  CodexIsActive'
    BY <1>3 DEF Attachments!Check, Attachments!Read, Attachments!Skip
<1>4. ASSUME NEW c \in Askers, Attachments!Begin(c)
      PROVE  CodexIsActive'
    BY <1>4, ScenesAreKnown DEF Attachments!Begin, Attachments!NoCaller
<1>5. ASSUME NEW c \in Askers,
             \/ Attachments!BeginFails(c) \/ Attachments!StartFails(c) \/ Attachments!StartTimesOut(c)
             \/ Attachments!ActivationFails(c)
      PROVE  CodexIsActive'
    BY <1>5 DEF Attachments!BeginFails, Attachments!StartFails, Attachments!StartTimesOut,
        Attachments!ActivationFails
<1>6. ASSUME NEW c \in Askers,
             \/ Attachments!StartTurn(c) \/ Attachments!CodexBegins(c) \/ Attachments!Started(c)
             \/ Attachments!CodexEnds(c)
      PROVE  CodexIsActive'
    BY <1>6 DEF Attachments!StartTurn, Attachments!CodexBegins, Attachments!Started, Attachments!CodexEnds
<1>7. ASSUME NEW c \in Askers,
             Attachments!TurnIsOver(c) \/ Attachments!Watchdog(c) \/ Attachments!EarlierLoss(c)
      PROVE  CodexIsActive'
    BY <1>7 DEF Attachments!TurnIsOver, Attachments!Watchdog, Attachments!EarlierLoss
<1> QED
    BY <1>1, <1>2, <1>3, <1>4, <1>5, <1>6, <1>7 DEF Attachments!Next

LEMMA AttachStays ==
    ASSUME AttachInv, Attachments!Next
    PROVE  AttachInv'
<1>1. AttachTypes' /\ CodexIsActive'
    BY AttachTypesStay, CodexStaysActive DEF AttachInv
<1> SUFFICES ASSUME NEW d \in Askers PROVE AskerInv(d)'
    BY <1>1 DEF AttachInv
<1>2. AskerInv(d) /\ AttachTypes
    BY DEF AttachInv
<1>3. ASSUME NEW f \in Files, Attachments!WriteFile(f)
      PROVE  AskerInv(d)'
  <2>1. UNCHANGED <<wants, pc, next, prepared, issues, sent>>
    BY <1>3 DEF Attachments!WriteFile
  <2>2. PICK size \in 1 .. MaxTotal, sound \in BOOLEAN :
          disk' = [disk EXCEPT ![f].size = size, ![f].sound = sound, ![f].version = @ + 1]
    BY <1>3 DEF Attachments!WriteFile
  <2>3. \A g \in Files : disk'[g].name = disk[g].name
    BY <1>2, <2>2 DEF AttachTypes, IsFile
  <2> QED
    BY <1>2, <2>1, <2>3, AskerStays
<1>4. ASSUME NEW c \in Askers,
             \/ Attachments!Begin(c) \/ Attachments!StartTurn(c) \/ Attachments!CodexBegins(c)
             \/ Attachments!CodexEnds(c) \/ Attachments!TurnIsOver(c) \/ Attachments!Watchdog(c)
             \/ Attachments!EarlierLoss(c)
      PROVE  AskerInv(d)'
  <2>1. UNCHANGED <<wants, disk, pc, next, prepared, issues, sent>>
    BY <1>4 DEF Attachments!Begin, Attachments!StartTurn, Attachments!CodexBegins, Attachments!CodexEnds,
        Attachments!TurnIsOver, Attachments!Watchdog, Attachments!EarlierLoss
  <2> QED
    BY <1>2, <2>1, AskerStays
<1>5. ASSUME NEW c \in Askers,
             \/ Attachments!Request(c) \/ Attachments!Acquire(c) \/ Attachments!Busy(c) \/ Attachments!Refuse(c)
             \/ Attachments!BeginFails(c) \/ Attachments!Started(c) \/ Attachments!StartFails(c)
             \/ Attachments!StartTimesOut(c) \/ Attachments!ActivationFails(c)
      PROVE  AskerInv(d)'
  <2>1. /\ UNCHANGED <<wants, disk, next, prepared, issues, sent>>
        /\ \E to \in {"waiting", "checking", "refused", "shown"} :
             /\ pc' = [pc EXCEPT ![c] = to]
             /\ to \in {"refused", "shown"} \/ pc[c] \in {"idle", "waiting"}
    BY <1>5, Zenon DEF Attachments!Request, Attachments!Acquire, Attachments!Busy, Attachments!Refuse,
        Attachments!BeginFails, Attachments!Started, Attachments!StartFails, Attachments!StartTimesOut,
        Attachments!ActivationFails, Attachments!Goto, Attachments!Leave
  <2>2. PICK to \in {"waiting", "checking", "refused", "shown"} :
          /\ pc' = [pc EXCEPT ![c] = to]
          /\ to \in {"refused", "shown"} \/ pc[c] \in {"idle", "waiting"}
    BY <2>1
  <2>3. CASE d # c
    <3>1. pc'[d] = pc[d]
      BY <1>2, <2>2, <2>3 DEF AttachTypes
    <3> QED
      BY <1>2, <2>1, <3>1, AskerStays
  <2>4. CASE d = c
    <3>1. pc'[c] = to /\ to # "reading" /\ to \in AskStages
      BY <1>2, <2>2 DEF AttachTypes, AskStages
    <3>2. sent[c] = <<>> \/ to \in {"refused", "shown"}
      BY <1>2, <2>2, <2>4 DEF AskerInv, SentIsAll
    <3> QED
      BY <1>2, <2>1, <2>4, <3>1, <3>2, AskerGoesOn
  <2> QED
    BY <2>3, <2>4
<1>6. ASSUME NEW c \in Askers, Attachments!Check(c) \/ Attachments!Read(c) \/ Attachments!Build(c)
      PROVE  AskerInv(d)'
  <2>1. CASE d = c
    BY <1>6, <2>1, AttachChecks, AttachReads, AttachBuilds
  <2>2. CASE d # c
    <3>1. /\ UNCHANGED <<wants, disk>> /\ pc'[d] = pc[d] /\ next'[d] = next[d]
          /\ prepared'[d] = prepared[d] /\ issues'[d] = issues[d] /\ sent'[d] = sent[d]
      BY <1>2, <1>6, <2>2 DEF Attachments!Check, Attachments!Read, Attachments!Build, Attachments!Goto,
          Attachments!Skip, Attachments!Issue, AttachTypes
    <3> QED
      BY <1>2, <3>1, AskerStays
  <2> QED
    BY <2>1, <2>2
<1> QED
    BY <1>3, <1>4, <1>5, <1>6 DEF Attachments!Next

LEMMA AttachSafe ==
    ASSUME AttachInv
    PROVE  Attachments!TurnIsWhole /\ Attachments!CodexReadsWhatWasChecked
<1>1. ASSUME NEW c \in Askers, sent[c] # <<>>
      PROVE  /\ Attachments!FilesOf(sent[c]) = Attachments!FilesOf(prepared[c])
             /\ Attachments!AreAsked(Attachments!FilesOf(sent[c]), wants[c].paths)
             /\ Len(prepared[c]) <= MaxAttachments /\ Attachments!Total(c) <= MaxTotal
             /\ \A i \in DOMAIN prepared[c] : prepared[c][i].size <= MaxFile
             /\ Attachments!IsInjective([i \in DOMAIN sent[c] |-> sent[c][i].label])
             /\ \A i \in DOMAIN sent[c] : Attachments!IsPrefix(Attachments!NameOf(sent[c][i]), sent[c][i].label)
  <2>1. AskerTypes(c) /\ FilesSoFar(c) /\ Bounded(c) /\ SentIsAll(c)
    BY DEF AttachInv, AskerInv
  <2>2. Attachments!FilesOf(sent[c]) = Attachments!FilesOf(prepared[c])
    BY <1>1, <2>1 DEF SentIsAll, Attachments!FilesOf
  <2>3. Attachments!AreAsked(Attachments!FilesOf(prepared[c]), wants[c].paths)
    <3>1. next[c] - 1 = Len(PathsOf(c)) /\ issues[c] = 0
      BY <1>1, <2>1 DEF SentIsAll, AskerTypes, IsList
    <3>2. Listed(prepared[c], PathsOf(c), Len(PathsOf(c))) /\ Complete(prepared[c], PathsOf(c), Len(PathsOf(c)))
      BY <2>1, <3>1 DEF FilesSoFar
    <3>3. prepared[c] \in Seq(Entries) /\ IsList(PathsOf(c))
      BY <2>1 DEF AskerTypes
    <3> QED
      BY <3>2, <3>3, ListedAreAsked DEF PathsOf
  <2>4. Attachments!IsInjective([i \in DOMAIN sent[c] |-> sent[c][i].label])
    BY <1>1, <2>1 DEF SentIsAll, Attachments!IsInjective
  <2> QED
    BY <1>1, <2>1, <2>2, <2>3, <2>4 DEF Bounded, SentIsAll, Attachments!Total
<1>2. ASSUME NEW c \in Askers, codex[c] = "turn", c \notin abandoned, NEW i \in DOMAIN sent[c]
      PROVE  Attachments!Found(c, i) = prepared[c][i].version
  <2>1. active = c
    BY <1>2 DEF AttachInv, CodexIsActive
  <2>2. sent[c] # <<>>
    BY <1>2
  <2>3. sent[c][i].as \in {"text", "snapshot"}
    BY <1>2, <2>2 DEF AttachInv, AskerInv, SentIsAll
  <2>4. sent[c][i].as # "path"
    BY <2>3
  <2> QED
    BY <2>1, <2>4 DEF Attachments!Found, Attachments!SnapshotLives
<1> QED
    BY <1>1, <1>2 DEF Attachments!TurnIsWhole, Attachments!CodexReadsWhatWasChecked

\* A turn goes out with all of its files, in order and each under a label of its own,
\* and Codex reads what was checked of them until Portcode gives the turn up, whatever
\* is written to them meanwhile and however many calls prepare turns (prepare_turn_with_display_names, PreparedTurn).
THEOREM TurnsGoOutWhole == Spec => []AttachmentsAreWhatWasChecked
<1> DEFINE I == part = "Attachments" => AttachInv
<1>1. Init => I
    BY AttachBegins DEF Init
<1>2. I /\ [Next]_vars => I'
  <2> SUFFICES ASSUME I, [Next]_vars, part = "Attachments" PROVE AttachInv'
    BY PartStays
  <2>1. CASE Attachments!Next
    BY <2>1, AttachStays
  <2>2. CASE UNCHANGED Attachments!vars
    <3>1. AttachInv /\ UNCHANGED <<wants, disk, pc, next, prepared, issues, sent, active, codex, abandoned>>
      BY <2>2 DEF Attachments!vars
    <3>2. \A c \in Askers : AskerInv(c)'
      BY <3>1, AskerStays DEF AttachInv
    <3> QED
      BY <3>1, <3>2 DEF AttachInv, AttachTypes, IsFile, CodexIsActive
  <2> QED
    BY <2>1, <2>2, AttachmentsMoves
<1>3. I => AttachmentsAreWhatWasChecked
    BY AttachSafe DEF AttachmentsAreWhatWasChecked
<1> QED
    BY <1>1, <1>2, <1>3, PTL DEF Spec

-----------------------------------------------------------------------------
(* What a turn's answer becomes *)

\* The recursive function in FlattenSeq.
IsFlat(parts, n, f) == f = [i \in 1 .. n |-> IF i = 1 THEN parts[i] ELSE f[i - 1] \o parts[i]]

LEMMA FlatAt ==
    ASSUME NEW parts, NEW n \in Nat, NEW f, IsFlat(parts, n, f), NEW i \in 0 .. n - 1
    PROVE  f[i + 1] = IF i = 0 THEN parts[1] ELSE f[i] \o parts[i + 1]
<1>1. i + 1 \in 1 .. n /\ i + 1 - 1 = i /\ (i + 1 = 1 <=> i = 0)
    OBVIOUS
<1>2. \A j \in 1 .. n : f[j] = IF j = 1 THEN parts[j] ELSE f[j - 1] \o parts[j]
    BY DEF IsFlat
<1>3. f[i + 1] = IF i + 1 = 1 THEN parts[i + 1] ELSE f[i + 1 - 1] \o parts[i + 1]
    BY <1>1, <1>2
<1> QED
    BY <1>1, <1>3

LEMMA FlatsExist ==
    ASSUME NEW parts
    PROVE  \A n \in Nat : \E f : IsFlat(parts, n, f)
<1> DEFINE G == {n \in Nat : \E f : IsFlat(parts, n, f)}
<1>1. 0 \in G
  <2> DEFINE f == [i \in 1 .. 0 |-> 0]
  <2>1. IsFlat(parts, 0, f)
    BY DEF IsFlat
  <2> QED
    BY <2>1
<1>2. ASSUME NEW n \in Nat, n \in G
      PROVE  n + 1 \in G
  <2>1. PICK f : IsFlat(parts, n, f)
    BY <1>2
  <2> DEFINE last == IF n = 0 THEN parts[1] ELSE f[n] \o parts[n + 1]
             g == [i \in 1 .. n + 1 |-> IF i = n + 1 THEN last ELSE f[i]]
             h == [i \in 1 .. n + 1 |-> IF i = 1 THEN parts[i] ELSE g[i - 1] \o parts[i]]
  <2>2. ASSUME NEW i \in 1 .. n + 1
        PROVE  g[i] = h[i]
    <3>1. h[i] = IF i = 1 THEN parts[i] ELSE g[i - 1] \o parts[i]
      OBVIOUS
    <3>2. i # 1 => i - 1 \in 1 .. n /\ g[i - 1] = f[i - 1]
      OBVIOUS
    <3>3. CASE i = n + 1
      <4>1. g[i] = last
        BY <3>3
      <4> HIDE DEF g, h
      <4> QED
        BY <3>1, <3>2, <3>3, <4>1
    <3>4. CASE i # n + 1
      <4>1. i \in 1 .. n /\ g[i] = f[i]
        BY <3>4
      <4>2. f[i] = IF i = 1 THEN parts[i] ELSE f[i - 1] \o parts[i]
        BY <2>1, <4>1 DEF IsFlat
      <4> HIDE DEF g, h
      <4> QED
        BY <3>1, <3>2, <4>1, <4>2
    <3> QED
      BY <3>3, <3>4
  <2>3. IsFlat(parts, n + 1, g)
    BY <2>2 DEF IsFlat
  <2> HIDE DEF g
  <2> QED
    BY <2>3
<1> HIDE DEF G
<1>3. Nat \subseteq G
    BY <1>1, <1>2, SetInduction
<1> QED
    BY <1>3 DEF G

LEMMA FlattenIsFlat ==
    ASSUME NEW parts, Len(parts) \in Nat \ {0}
    PROVE  \E f : IsFlat(parts, Len(parts), f) /\ Projection!FlattenSeq(parts) = f[Len(parts)]
<1> DEFINE F == CHOOSE f : IsFlat(parts, Len(parts), f)
<1>1. IsFlat(parts, Len(parts), F)
    BY FlatsExist
<1>2. Projection!FlattenSeq(parts) = F[Len(parts)]
    BY DEF Projection!FlattenSeq, IsFlat
<1> QED
    BY <1>1, <1>2

\* Lists of lists, one after the other.
LEMMA FlattenIsList ==
    ASSUME NEW S, NEW parts \in Seq(Seq(S)), NEW f, IsFlat(parts, Len(parts), f)
    PROVE  \A n \in 1 .. Len(parts) : f[n] \in Seq(S)
<1> DEFINE G == {n \in Nat : n \in 1 .. Len(parts) => f[n] \in Seq(S)}
<1>1. 0 \in G
    OBVIOUS
<1>2. ASSUME NEW n \in Nat, n \in G
      PROVE  n + 1 \in G
  <2> SUFFICES ASSUME n + 1 \in 1 .. Len(parts) PROVE f[n + 1] \in Seq(S)
    OBVIOUS
  <2>1. f[n + 1] = IF n = 0 THEN parts[1] ELSE f[n] \o parts[n + 1]
    BY FlatAt
  <2>2. parts[n + 1] \in Seq(S)
    OBVIOUS
  <2>3. n # 0 => f[n] \in Seq(S)
    BY <1>2
  <2> QED
    BY <2>1, <2>2, <2>3
<1> HIDE DEF G
<1>3. Nat \subseteq G
    BY <1>1, <1>2, SetInduction
<1> QED
    BY <1>3 DEF G

LEMMA FlattenType ==
    ASSUME NEW S, NEW parts \in Seq(Seq(S))
    PROVE  Projection!FlattenSeq(parts) \in Seq(S)
<1>1. CASE Len(parts) = 0
    BY <1>1 DEF Projection!FlattenSeq
<1>2. CASE Len(parts) # 0
  <2>1. PICK f : IsFlat(parts, Len(parts), f) /\ Projection!FlattenSeq(parts) = f[Len(parts)]
    BY <1>2, FlattenIsFlat
  <2> QED
    BY <1>2, <2>1, FlattenIsList
<1> QED
    BY <1>1, <1>2

LEMMA FlattenGrows ==
    ASSUME NEW S, NEW parts \in Seq(Seq(S)), NEW x \in Seq(S)
    PROVE  Projection!FlattenSeq(Append(parts, x)) = Projection!FlattenSeq(parts) \o x
<1> DEFINE more == Append(parts, x)
           N == Len(parts)
<1>1. /\ more \in Seq(Seq(S)) /\ Len(more) = N + 1 /\ more[N + 1] = x /\ N \in Nat
      /\ \A n \in 1 .. N : more[n] = parts[n]
    OBVIOUS
<1> HIDE DEF more
<1>2. PICK g : IsFlat(more, N + 1, g) /\ Projection!FlattenSeq(more) = g[N + 1]
    BY <1>1, FlattenIsFlat
<1>3. g[N + 1] = IF N = 0 THEN x ELSE g[N] \o x
    BY <1>1, <1>2, FlatAt, SMTT(30)
<1>4. CASE N = 0
  <2>1. Projection!FlattenSeq(parts) = parts /\ parts = <<>>
    BY <1>4 DEF Projection!FlattenSeq
  <2> QED
    BY <1>2, <1>3, <1>4, <2>1 DEF more
<1>5. CASE N # 0
  <2>1. PICK f : IsFlat(parts, N, f) /\ Projection!FlattenSeq(parts) = f[N]
    BY <1>1, <1>5, FlattenIsFlat
  <2> DEFINE G == {n \in Nat : n \in 1 .. N => g[n] = f[n]}
  <2>2. 0 \in G
    OBVIOUS
  <2>3. ASSUME NEW n \in Nat, n \in G
        PROVE  n + 1 \in G
    <3> SUFFICES ASSUME n + 1 \in 1 .. N PROVE g[n + 1] = f[n + 1]
      OBVIOUS
    <3>4. n \in 0 .. N - 1 /\ n \in 0 .. (N + 1) - 1 /\ N + 1 \in Nat
      BY <1>1
    <3>1. g[n + 1] = IF n = 0 THEN more[1] ELSE g[n] \o more[n + 1]
      BY <1>2, <3>4, FlatAt
    <3>2. f[n + 1] = IF n = 0 THEN parts[1] ELSE f[n] \o parts[n + 1]
      BY <1>1, <2>1, <3>4, FlatAt
    <3>3. n # 0 => g[n] = f[n]
      BY <2>3
    <3> QED
      BY <1>1, <3>1, <3>2, <3>3
  <2> HIDE DEF G
  <2>4. Nat \subseteq G
    BY <2>2, <2>3, SetInduction
  <2>5. g[N] = f[N]
    BY <1>1, <1>5, <2>4 DEF G
  <2> QED
    BY <1>2, <1>3, <1>5, <2>1, <2>5 DEF more
<1> QED
    BY <1>4, <1>5

Kinds == {"delta", "text", "started", "tool", "usage"}
Happenings == [kind : Kinds, item : Nat, text : Seq(Nat)]
Mentioned(events) == {events[n].item : n \in {m \in DOMAIN events : events[m].kind # "usage"}}

\* What the definitions that put lists together amount to.
Folds(events) ==
    /\ Projection!Range(Projection!Mentions(events)) = Mentioned(events)
    /\ \A i \in Nat \ Mentioned(events) : Projection!Streamed(events, i) = <<>>

LEMMA AppendIs ==
    ASSUME NEW S, NEW p \in Seq(S), NEW q \in Seq(S), NEW x \in S,
           Len(q) = Len(p) + 1, q[Len(p) + 1] = x, \A n \in 1 .. Len(p) : q[n] = p[n]
    PROVE  q = Append(p, x)
<1> DEFINE r == Append(p, x)
<1>1. r \in Seq(S) /\ Len(r) = Len(p) + 1 /\ r[Len(p) + 1] = x /\ \A n \in 1 .. Len(p) : r[n] = p[n]
    OBVIOUS
<1> HIDE DEF r
<1>2. \A n \in 1 .. Len(q) : q[n] = r[n]
    BY <1>1
<1> QED
    BY <1>1, <1>2 DEF r

\* One more event.
LEMMA EventsGrow ==
    ASSUME NEW events \in Seq(Happenings), NEW e \in Happenings
    PROVE  LET more == Append(events, e)
           IN  /\ more \in Seq(Happenings) /\ DOMAIN more = 1 .. Len(events) + 1
               /\ DOMAIN events = 1 .. Len(events) /\ Len(events) \in Nat
               /\ more[Len(events) + 1] = e /\ \A n \in 1 .. Len(events) : more[n] = events[n]
               /\ Mentioned(more) = IF e.kind = "usage" THEN Mentioned(events) ELSE Mentioned(events) \cup {e.item}
<1> DEFINE more == Append(events, e)
           N == Len(events)
<1>1. /\ more \in Seq(Happenings) /\ DOMAIN more = 1 .. N + 1
      /\ DOMAIN events = 1 .. N /\ N \in Nat
      /\ more[N + 1] = e /\ \A n \in 1 .. N : more[n] = events[n]
    OBVIOUS
<1> HIDE DEF more
<1>2. ASSUME NEW i
      PROVE  i \in Mentioned(more) <=> i \in Mentioned(events) \/ (e.kind # "usage" /\ i = e.item)
  <2>1. i \in Mentioned(more) <=> \E n \in 1 .. N + 1 : more[n].kind # "usage" /\ more[n].item = i
    BY <1>1 DEF Mentioned
  <2>2. i \in Mentioned(events) <=> \E n \in 1 .. N : events[n].kind # "usage" /\ events[n].item = i
    BY <1>1 DEF Mentioned
  <2> QED
    BY <1>1, <2>1, <2>2
<1> QED
    BY <1>1, <1>2 DEF more

LEMMA OfGrows ==
    ASSUME NEW events \in Seq(Happenings), NEW e \in Happenings, NEW i, NEW kind
    PROVE  Projection!Of(Append(events, e), i, kind) =
             Projection!Of(events, i, kind) \cup (IF e.item = i /\ e.kind = kind THEN {Len(events) + 1} ELSE {})
<1> DEFINE more == Append(events, e)
<1>1. /\ DOMAIN more = 1 .. Len(events) + 1 /\ DOMAIN events = 1 .. Len(events) /\ Len(events) \in Nat
      /\ more[Len(events) + 1] = e /\ \A n \in 1 .. Len(events) : more[n] = events[n]
    BY EventsGrow
<1> HIDE DEF more
<1> QED
    BY <1>1 DEF Projection!Of, more

\* The first mention of an item in what came before stays that.
LEMMA MentionsGrow ==
    ASSUME NEW events \in Seq(Happenings), NEW e \in Happenings
    PROVE  /\ Projection!Mentions(events) \in Seq(Nat)
           /\ Projection!Mentions(Append(events, e)) =
                IF e.kind = "usage" \/ e.item \in Mentioned(events) THEN Projection!Mentions(events)
                ELSE Append(Projection!Mentions(events), e.item)
<1> DEFINE more == Append(events, e)
           N == Len(events)
           Part(list, n) == IF Projection!IsFirst(list, n) THEN <<list[n].item>> ELSE <<>>
           old == [n \in DOMAIN events |-> Part(events, n)]
           new == [n \in DOMAIN more |-> Part(more, n)]
<1>1. /\ more \in Seq(Happenings) /\ DOMAIN more = 1 .. N + 1 /\ DOMAIN events = 1 .. N /\ N \in Nat
      /\ more[N + 1] = e /\ \A n \in 1 .. N : more[n] = events[n]
    BY EventsGrow
<1> HIDE DEF more
<1>2. ASSUME NEW list \in Seq(Happenings)
      PROVE  [n \in DOMAIN list |-> Part(list, n)] \in Seq(Seq(Nat))
  <2>1. \A n \in DOMAIN list : Part(list, n) \in Seq(Nat)
    <3>1. \A k \in Nat : <<k>> \in Seq(Nat)
      OBVIOUS
    <3>2. <<>> \in Seq(Nat)
      OBVIOUS
    <3>3. \A n \in DOMAIN list : list[n] \in Happenings
      OBVIOUS
    <3>4. \A h \in Happenings : h.item \in Nat /\ h.text \in Seq(Nat)
      BY DEF Happenings
    <3> QED
      BY <3>1, <3>2, <3>3, <3>4
  <2> HIDE DEF Part
  <2>2. DOMAIN list = 1 .. Len(list) /\ Len(list) \in Nat
    OBVIOUS
  <2> QED
    BY <2>1, <2>2
<1>3. old \in Seq(Seq(Nat)) /\ new \in Seq(Seq(Nat))
    BY <1>1, <1>2
<1>4. ASSUME NEW n \in 1 .. N
      PROVE  Part(more, n) = Part(events, n)
  <2>1. more[n] = events[n] /\ \A m \in 1 .. n - 1 : more[m] = events[m]
    BY <1>1
  <2> QED
    BY <2>1 DEF Projection!IsFirst
<1>5. Part(more, N + 1) = IF e.kind = "usage" \/ e.item \in Mentioned(events) THEN <<>> ELSE <<e.item>>
  <2>1. e.item \in Mentioned(events) <=> \E n \in 1 .. N : events[n].kind # "usage" /\ events[n].item = e.item
    BY <1>1 DEF Mentioned
  <2>2. Projection!IsFirst(more, N + 1) <=> e.kind # "usage" /\ e.item \notin Mentioned(events)
    BY <1>1, <2>1 DEF Projection!IsFirst
  <2> QED
    BY <1>1, <2>2
<1> HIDE DEF Part
<1> DEFINE x == Part(more, N + 1)
<1>6. x \in Seq(Nat)
  <2>1. e.item \in Nat /\ e.text \in Seq(Nat)
    BY DEF Happenings
  <2>2. \A k \in Nat : <<k>> \in Seq(Nat)
    OBVIOUS
  <2>3. <<>> \in Seq(Nat)
    OBVIOUS
  <2> HIDE DEF x
  <2> QED
    BY <1>5, <2>1, <2>2, <2>3 DEF x
<1>7. new = Append(old, x)
  <2>1. Len(old) = N /\ Len(new) = N + 1 /\ new[N + 1] = x /\ \A n \in 1 .. N : new[n] = old[n]
    BY <1>1, <1>4
  <2> HIDE DEF old, new, x
  <2> QED
    BY <1>1, <1>3, <1>6, <2>1, AppendIs
<1>8. Projection!Mentions(events) = Projection!FlattenSeq(old) /\ Projection!Mentions(more) = Projection!FlattenSeq(new)
    BY DEF Projection!Mentions, Part
<1> HIDE DEF old, new
<1>9. Projection!FlattenSeq(old) \in Seq(Nat) /\ Projection!FlattenSeq(new) = Projection!FlattenSeq(old) \o x
    BY <1>3, <1>6, <1>7, FlattenType, FlattenGrows
<1>10. \A s \in Seq(Nat), i \in Nat : s \o <<>> = s /\ s \o <<i>> = Append(s, i)
    OBVIOUS
<1>11. e.item \in Nat
    BY DEF Happenings
<1> HIDE DEF x
<1> QED
    BY <1>5, <1>8, <1>9, <1>10, <1>11 DEF more, x

LEMMA StreamedGrows ==
    ASSUME NEW events \in Seq(Happenings), NEW e \in Happenings, NEW i
    PROVE  /\ Projection!Streamed(events, i) \in Seq(Nat)
           /\ Projection!Streamed(Append(events, e), i) =
                IF e.item = i /\ e.kind = "delta" THEN Projection!Streamed(events, i) \o e.text
                ELSE Projection!Streamed(events, i)
<1> DEFINE more == Append(events, e)
           N == Len(events)
           Part(list, n) == IF n \in Projection!Of(list, i, "delta") THEN list[n].text ELSE <<>>
           old == [n \in DOMAIN events |-> Part(events, n)]
           new == [n \in DOMAIN more |-> Part(more, n)]
<1>1. /\ more \in Seq(Happenings) /\ DOMAIN more = 1 .. N + 1 /\ DOMAIN events = 1 .. N /\ N \in Nat
      /\ more[N + 1] = e /\ \A n \in 1 .. N : more[n] = events[n]
    BY EventsGrow
<1> HIDE DEF more
<1>2. ASSUME NEW list \in Seq(Happenings)
      PROVE  [n \in DOMAIN list |-> Part(list, n)] \in Seq(Seq(Nat))
  <2>1. \A n \in DOMAIN list : Part(list, n) \in Seq(Nat)
    <3>1. \A k \in Nat : <<k>> \in Seq(Nat)
      OBVIOUS
    <3>2. <<>> \in Seq(Nat)
      OBVIOUS
    <3>3. \A n \in DOMAIN list : list[n] \in Happenings
      OBVIOUS
    <3>4. \A h \in Happenings : h.item \in Nat /\ h.text \in Seq(Nat)
      BY DEF Happenings
    <3> QED
      BY <3>1, <3>2, <3>3, <3>4
  <2> HIDE DEF Part
  <2>2. DOMAIN list = 1 .. Len(list) /\ Len(list) \in Nat
    OBVIOUS
  <2> QED
    BY <2>1, <2>2
<1>3. old \in Seq(Seq(Nat)) /\ new \in Seq(Seq(Nat))
    BY <1>1, <1>2
<1>4. ASSUME NEW n \in 1 .. N
      PROVE  Part(more, n) = Part(events, n)
    BY <1>1 DEF Projection!Of
<1>5. Part(more, N + 1) = IF e.item = i /\ e.kind = "delta" THEN e.text ELSE <<>>
    BY <1>1 DEF Projection!Of
<1> HIDE DEF Part
<1> DEFINE x == Part(more, N + 1)
<1>6. x \in Seq(Nat)
  <2>1. e.item \in Nat /\ e.text \in Seq(Nat)
    BY DEF Happenings
  <2>2. \A k \in Nat : <<k>> \in Seq(Nat)
    OBVIOUS
  <2>3. <<>> \in Seq(Nat)
    OBVIOUS
  <2> HIDE DEF x
  <2> QED
    BY <1>5, <2>1, <2>2, <2>3 DEF x
<1>7. new = Append(old, x)
  <2>1. Len(old) = N /\ Len(new) = N + 1 /\ new[N + 1] = x /\ \A n \in 1 .. N : new[n] = old[n]
    BY <1>1, <1>4
  <2> HIDE DEF old, new, x
  <2> QED
    BY <1>1, <1>3, <1>6, <2>1, AppendIs
<1>8. /\ Projection!Streamed(events, i) = Projection!FlattenSeq(old)
      /\ Projection!Streamed(more, i) = Projection!FlattenSeq(new)
    BY DEF Projection!Streamed, Part
<1> HIDE DEF old, new
<1>9. Projection!FlattenSeq(old) \in Seq(Nat) /\ Projection!FlattenSeq(new) = Projection!FlattenSeq(old) \o x
    BY <1>3, <1>6, <1>7, FlattenType, FlattenGrows
<1>10. \A s \in Seq(Nat) : s \o <<>> = s
    OBVIOUS
<1> HIDE DEF x
<1> QED
    BY <1>5, <1>8, <1>9, <1>10 DEF more, x

\* The projection of what was recorded.
ItemOf(events, i) ==
    IF Projection!Of(events, i, "tool") # {} THEN Projection!Tool(TRUE)
    ELSE IF Projection!Of(events, i, "started") # {} THEN Projection!Tool(FALSE)
    ELSE Projection!TextItem(Projection!TextOf(events, i))
IsOf(p, events) ==
    /\ p = [order |-> p.order, items |-> p.items, snapshot |-> p.snapshot]
    /\ p.order = Projection!Mentions(events)
    /\ p.items = [i \in Mentioned(events) |-> ItemOf(events, i)]
Matches(p, events) ==
    /\ IsOf(p, events)
    /\ Projection!EndsInText(events) => p.snapshot = Projection!Blocks(p) /\ p.snapshot # Projection!NoMessage

LEMMA LatestIs ==
    ASSUME NEW N \in Nat, NEW T, T \subseteq 1 .. N, T # {}
    PROVE  Projection!Max(T) \in T /\ \A n \in T : n <= Projection!Max(T)
<1> DEFINE U == {N - n : n \in T}
<1>1. U \subseteq Nat /\ U # {}
  <2>1. \A n \in T : N - n \in Nat
    OBVIOUS
  <2> QED
    BY <2>1
<1> HIDE DEF U
<1>2. PICK u \in U : \A v \in U : u <= v
    BY <1>1, LeastNumber
<1>3. PICK m \in T : u = N - m
    BY <1>2 DEF U
<1>4. ASSUME NEW n \in T
      PROVE  n <= m
  <2>1. u <= N - n
    BY <1>2 DEF U
  <2>2. n \in Nat /\ m \in Nat /\ N \in Nat /\ u = N - m
    BY <1>3
  <2> QED
    BY <2>1, <2>2
<1>5. \E x \in T : \A y \in T : x >= y
    BY <1>4
<1>6. /\ Projection!Max(T) \in T /\ \A n \in T : Projection!Max(T) >= n
    BY <1>5 DEF Projection!Max
<1> QED
    BY <1>6

\* The words of an item, with one more event.
LEMMA TextGrows ==
    ASSUME NEW events \in Seq(Happenings), NEW e \in Happenings, NEW i \in Nat,
           \A m \in DOMAIN events : Fits(events[m], e)
    PROVE  /\ Projection!TextOf(events, i) \in Seq(Nat)
           /\ Projection!TextOf(Append(events, e), i) =
                IF e.item = i /\ e.kind = "text" THEN e.text
                ELSE IF e.item = i /\ e.kind = "delta" THEN Projection!TextOf(events, i) \o e.text
                ELSE Projection!TextOf(events, i)
<1> DEFINE more == Append(events, e)
           N == Len(events)
           old == Projection!Of(events, i, "text")
           new == Projection!Of(more, i, "text")
<1>1. /\ more \in Seq(Happenings) /\ DOMAIN more = 1 .. N + 1 /\ DOMAIN events = 1 .. N /\ N \in Nat
      /\ more[N + 1] = e /\ \A n \in 1 .. N : more[n] = events[n]
    BY EventsGrow
<1>2. new = old \cup (IF e.item = i /\ e.kind = "text" THEN {N + 1} ELSE {})
    BY OfGrows
<1>3. Projection!TextOf(events, i) = IF old = {} THEN Projection!Streamed(events, i)
                                     ELSE events[Projection!Max(old)].text
    BY DEF Projection!TextOf
<1>4. Projection!TextOf(more, i) = IF new = {} THEN Projection!Streamed(more, i)
                                   ELSE more[Projection!Max(new)].text
    BY DEF Projection!TextOf
<1>5. old \subseteq 1 .. N /\ \A n \in old : events[n].item = i /\ events[n].kind = "text"
    BY <1>1 DEF Projection!Of
<1>6. old # {} => Projection!Max(old) \in old
    BY <1>1, <1>5, LatestIs
<1>7. \A h \in Happenings : h.text \in Seq(Nat)
    BY DEF Happenings
<1>8. /\ Projection!Streamed(events, i) \in Seq(Nat)
      /\ Projection!Streamed(more, i) = IF e.item = i /\ e.kind = "delta" THEN Projection!Streamed(events, i) \o e.text
                                        ELSE Projection!Streamed(events, i)
    BY StreamedGrows
<1> HIDE DEF more, old, new
<1>9. Projection!TextOf(events, i) \in Seq(Nat)
  <2>2. \A n \in 1 .. N : events[n] \in Happenings
    BY <1>1
  <2>1. old # {} => events[Projection!Max(old)] \in Happenings
    BY <1>5, <1>6, <2>2
  <2> QED
    BY <1>3, <1>7, <1>8, <2>1
<1>10. CASE e.item = i /\ e.kind = "text"
  <2>4. new = old \cup {N + 1}
    BY <1>2, <1>10
  <2>5. old \subseteq 1 .. N + 1
    BY <1>1, <1>5
  <2>1. new \subseteq 1 .. N + 1 /\ N + 1 \in new /\ N + 1 \in Nat
    <3>1. N + 1 \in 1 .. N + 1 /\ N + 1 \in Nat
      BY <1>1
    <3> QED
      BY <2>4, <2>5, <3>1
  <2>2. Projection!Max(new) \in new /\ \A n \in new : n <= Projection!Max(new)
    BY <2>1, LatestIs
  <2>3. Projection!Max(new) = N + 1
    <3>1. Projection!Max(new) \in 1 .. N + 1 /\ N + 1 <= Projection!Max(new)
      BY <2>1, <2>2
    <3> QED
      BY <1>1, <3>1
  <2> QED
    BY <1>1, <1>4, <1>9, <1>10, <2>1, <2>3 DEF more
<1>11. CASE e.item = i /\ e.kind = "delta"
  <2>1. ASSUME NEW n \in old
        PROVE  FALSE
    <3>1. n \in DOMAIN events /\ events[n].item = i /\ events[n].kind = "text"
      BY <1>1, <1>5
    <3>2. Fits(events[n], e)
      BY <3>1
    <3> QED
      BY <1>11, <3>1, <3>2 DEF Fits
  <2>2. old = {} /\ new = {}
    BY <1>2, <1>11, <2>1
  <2> QED
    BY <1>3, <1>4, <1>8, <1>9, <1>11, <2>2 DEF more
<1>12. CASE ~(e.item = i /\ e.kind \in {"text", "delta"})
  <2>1. new = old
    BY <1>2, <1>12
  <2>2. old # {} => more[Projection!Max(old)] = events[Projection!Max(old)]
    BY <1>1, <1>5, <1>6
  <2>3. Projection!TextOf(more, i) = Projection!TextOf(events, i)
    <3>1. CASE old = {}
      BY <1>3, <1>4, <1>8, <1>12, <2>1, <3>1
    <3>2. CASE old # {}
      BY <1>3, <1>4, <2>1, <2>2, <3>2
    <3> QED
      BY <3>1, <3>2
  <2> QED
    BY <1>9, <1>12, <2>3 DEF more
<1> QED
    BY <1>10, <1>11, <1>12

\* An event about an item that the projection has, or has not.
LEMMA MentionFits ==
    ASSUME NEW events \in Seq(Happenings), NEW e \in Happenings, e.kind # "usage",
           \A m \in DOMAIN events : Fits(events[m], e)
    PROVE  /\ \A kind : Projection!Of(events, e.item, kind) # {} /\ kind # "usage" => e.item \in Mentioned(events)
           /\ e.item \in Mentioned(events) =>
                IF e.kind \in {"delta", "text"}
                THEN Projection!Of(events, e.item, "tool") = {} /\ Projection!Of(events, e.item, "started") = {}
                ELSE Projection!Of(events, e.item, "tool") # {} \/ Projection!Of(events, e.item, "started") # {}
<1>1. ASSUME NEW m \in DOMAIN events, events[m].item = e.item, events[m].kind # "usage"
      PROVE  events[m].kind \in {"delta", "text"} <=> e.kind \in {"delta", "text"}
    BY <1>1 DEF Fits
<1>2. ASSUME NEW kind, Projection!Of(events, e.item, kind) # {}, kind # "usage"
      PROVE  e.item \in Mentioned(events)
    BY <1>2 DEF Projection!Of, Mentioned
<1>3. ASSUME e.item \in Mentioned(events), e.kind \in {"delta", "text"}
      PROVE  Projection!Of(events, e.item, "tool") = {} /\ Projection!Of(events, e.item, "started") = {}
    BY <1>1, <1>3 DEF Projection!Of
<1>4. ASSUME e.item \in Mentioned(events), e.kind \notin {"delta", "text"}
      PROVE  Projection!Of(events, e.item, "tool") # {} \/ Projection!Of(events, e.item, "started") # {}
  <2>1. PICK m \in DOMAIN events : events[m].kind # "usage" /\ events[m].item = e.item
    BY <1>4 DEF Mentioned
  <2>2. events[m].kind \in {"tool", "started"}
    <3>1. events[m] \in Happenings
      BY <2>1
    <3>2. events[m].kind \in Kinds
      BY <3>1 DEF Happenings
    <3> QED
      BY <1>1, <1>4, <2>1, <3>2 DEF Kinds
  <2>3. m \in Projection!Of(events, e.item, "tool") \/ m \in Projection!Of(events, e.item, "started")
    BY <2>1, <2>2 DEF Projection!Of
  <2> QED
    BY <2>3
<1> QED
    BY <1>2, <1>3, <1>4

\* What an event does to its item and to the others.
LEMMA ItemGrows ==
    ASSUME NEW events \in Seq(Happenings), NEW e \in Happenings, NEW i \in Nat, Folds(events),
           \A m \in DOMAIN events : Fits(events[m], e)
    PROVE  LET new == ItemOf(Append(events, e), i)
               old == ItemOf(events, i)
           IN  /\ e.item # i \/ e.kind = "usage" => new = old
               /\ e.item = i /\ e.kind = "delta" =>
                    IF i \in Mentioned(events)
                    THEN new = Projection!TextItem(old.text \o e.text) /\ old.kind = "text"
                    ELSE new = Projection!TextItem(e.text)
               /\ e.item = i /\ e.kind = "text" => new = Projection!TextItem(e.text)
               /\ e.item = i /\ e.kind = "started" =>
                    new = IF i \in Mentioned(events) THEN old ELSE Projection!Tool(FALSE)
               /\ e.item = i /\ e.kind = "tool" => new = Projection!Tool(TRUE)
<1> DEFINE more == Append(events, e)
           tools == Projection!Of(events, i, "tool")
           starts == Projection!Of(events, i, "started")
           tools2 == Projection!Of(more, i, "tool")
           starts2 == Projection!Of(more, i, "started")
           text == Projection!TextOf(events, i)
           text2 == Projection!TextOf(more, i)
           N == Len(events) + 1
<1>1. /\ tools2 = tools \cup (IF e.item = i /\ e.kind = "tool" THEN {N} ELSE {})
      /\ starts2 = starts \cup (IF e.item = i /\ e.kind = "started" THEN {N} ELSE {})
    BY OfGrows
<1>2. /\ text \in Seq(Nat)
      /\ text2 = IF e.item = i /\ e.kind = "text" THEN e.text
                 ELSE IF e.item = i /\ e.kind = "delta" THEN text \o e.text ELSE text
    BY TextGrows
<1>3. /\ ItemOf(events, i) = IF tools # {} THEN Projection!Tool(TRUE)
                             ELSE IF starts # {} THEN Projection!Tool(FALSE) ELSE Projection!TextItem(text)
      /\ ItemOf(more, i) = IF tools2 # {} THEN Projection!Tool(TRUE)
                           ELSE IF starts2 # {} THEN Projection!Tool(FALSE) ELSE Projection!TextItem(text2)
    BY DEF ItemOf
<1>4. \A t : Projection!TextItem(t).kind = "text" /\ Projection!TextItem(t).text = t
    BY DEF Projection!TextItem
<1>5. i \notin Mentioned(events) => tools = {} /\ starts = {} /\ text = <<>>
  <2> SUFFICES ASSUME i \notin Mentioned(events) PROVE tools = {} /\ starts = {} /\ text = <<>>
    OBVIOUS
  <2>1. \A kind : kind # "usage" => Projection!Of(events, i, kind) = {}
    BY DEF Projection!Of, Mentioned
  <2>2. Projection!Streamed(events, i) = <<>>
    BY DEF Folds
  <2>3. text = <<>>
    BY <2>1, <2>2 DEF Projection!TextOf
  <2> QED
    BY <2>1, <2>3
<1>6. e.item = i /\ e.kind # "usage" /\ i \in Mentioned(events) =>
        IF e.kind \in {"delta", "text"} THEN tools = {} /\ starts = {} ELSE tools # {} \/ starts # {}
    BY MentionFits
<1>7. e.text \in Seq(Nat) /\ e.kind \in Kinds /\ \A s \in Seq(Nat) : <<>> \o s = s
    BY DEF Happenings
<1> HIDE DEF tools, starts, tools2, starts2, text, text2, more, N
<1>8. e.item # i \/ e.kind = "usage" => ItemOf(more, i) = ItemOf(events, i)
  <2> SUFFICES ASSUME e.item # i \/ e.kind = "usage" PROVE ItemOf(more, i) = ItemOf(events, i)
    OBVIOUS
  <2>1. tools2 = tools /\ starts2 = starts /\ text2 = text
    BY <1>1, <1>2
  <2> QED
    BY <1>3, <2>1
<1>9. ASSUME e.item = i, e.kind = "delta"
      PROVE  IF i \in Mentioned(events)
             THEN ItemOf(more, i) = Projection!TextItem(ItemOf(events, i).text \o e.text) /\ ItemOf(events, i).kind = "text"
             ELSE ItemOf(more, i) = Projection!TextItem(e.text)
  <2>1. tools = {} /\ starts = {} /\ tools2 = {} /\ starts2 = {}
    BY <1>1, <1>5, <1>6, <1>9
  <2>2. ItemOf(more, i) = Projection!TextItem(text \o e.text) /\ ItemOf(events, i) = Projection!TextItem(text)
    BY <1>2, <1>3, <1>9, <2>1
  <2>3. i \notin Mentioned(events) => text \o e.text = e.text
    BY <1>5, <1>7
  <2> QED
    BY <1>4, <2>2, <2>3
<1>10. e.item = i /\ e.kind = "text" => ItemOf(more, i) = Projection!TextItem(e.text)
  <2> SUFFICES ASSUME e.item = i, e.kind = "text" PROVE ItemOf(more, i) = Projection!TextItem(e.text)
    OBVIOUS
  <2>1. tools2 = {} /\ starts2 = {}
    BY <1>1, <1>5, <1>6
  <2> QED
    BY <1>2, <1>3, <2>1
<1>11. e.item = i /\ e.kind = "started" =>
         ItemOf(more, i) = IF i \in Mentioned(events) THEN ItemOf(events, i) ELSE Projection!Tool(FALSE)
  <2> SUFFICES ASSUME e.item = i, e.kind = "started"
               PROVE  ItemOf(more, i) = IF i \in Mentioned(events) THEN ItemOf(events, i) ELSE Projection!Tool(FALSE)
    OBVIOUS
  <2>1. tools2 = tools /\ starts2 # {}
    BY <1>1
  <2> QED
    BY <1>3, <1>5, <1>6, <2>1
<1>12. e.item = i /\ e.kind = "tool" => ItemOf(more, i) = Projection!Tool(TRUE)
    BY <1>1, <1>3
<1> QED
    BY <1>8, <1>9, <1>10, <1>11, <1>12 DEF more

\* How a piece of a message is stored.
Pieces == [kind : {"text", "use", "result"}, item : Nat, text : Seq(Nat)]

LEMMA AnswerType ==
    ASSUME NEW events \in Seq(Happenings)
    PROVE  \A i \in Nat : Projection!AnswerOf(events, i) \in Seq(Pieces)
<1> SUFFICES ASSUME NEW i \in Nat PROVE Projection!AnswerOf(events, i) \in Seq(Pieces)
    OBVIOUS
<1>1. Projection!TextOf(events, i) \in Seq(Nat)
  <2> DEFINE finals == Projection!Of(events, i, "text")
  <2>1. /\ Len(events) \in Nat /\ finals \subseteq 1 .. Len(events)
        /\ \A n \in 1 .. Len(events) : events[n] \in Happenings
    BY DEF Projection!Of
  <2>2. Projection!Streamed(events, i) \in Seq(Nat)
    <3>1. [kind |-> "usage", item |-> 0, text |-> <<>>] \in Happenings
      BY DEF Happenings, Kinds
    <3> QED
      BY <3>1, StreamedGrows
  <2>3. Projection!TextOf(events, i) = IF finals = {} THEN Projection!Streamed(events, i)
                                       ELSE events[Projection!Max(finals)].text
    BY DEF Projection!TextOf
  <2> HIDE DEF finals
  <2>4. finals # {} => events[Projection!Max(finals)] \in Happenings
    BY <2>1, LatestIs
  <2>5. \A h \in Happenings : h.text \in Seq(Nat)
    BY DEF Happenings
  <2> QED
    BY <2>2, <2>3, <2>4, <2>5
<1>2. \A t \in Seq(Nat) : Projection!Text(t) \in Pieces
    BY DEF Projection!Text, Pieces
<1>3. Projection!Use(i) \in Pieces /\ Projection!Result(i) \in Pieces
    BY DEF Projection!Use, Projection!Result, Pieces
<1>4. \A x, y \in Pieces : <<x, y>> \in Seq(Pieces) /\ <<x>> \in Seq(Pieces)
    OBVIOUS
<1>5. <<>> \in Seq(Pieces)
    OBVIOUS
<1> QED
    BY <1>1, <1>2, <1>3, <1>4, <1>5 DEF Projection!AnswerOf

\* The blocks of a projection are the answer.
LEMMA BlocksAreAnswer ==
    ASSUME NEW events \in Seq(Happenings), Folds(events), NEW p, IsOf(p, events)
    PROVE  /\ Projection!Blocks(p) = Projection!Answer(events)
           /\ Projection!Answer(events) \in Seq(Pieces)
<1> DEFINE order == Projection!Mentions(events)
           parts == [n \in DOMAIN order |-> Projection!AnswerOf(events, order[n])]
           blocks == [n \in DOMAIN order |-> Projection!BlocksOf(p, order[n])]
<1>1. order \in Seq(Nat) /\ DOMAIN order = 1 .. Len(order) /\ Len(order) \in Nat
  <2>1. [kind |-> "usage", item |-> 0, text |-> <<>>] \in Happenings
    BY DEF Happenings, Kinds
  <2>2. order \in Seq(Nat)
    BY <2>1, MentionsGrow
  <2> HIDE DEF order
  <2> QED
    BY <2>2
<1>2. ASSUME NEW i \in Mentioned(events)
      PROVE  Projection!BlocksOf(p, i) = Projection!AnswerOf(events, i)
  <2>1. p.items[i] = ItemOf(events, i)
    BY DEF IsOf
  <2>2. CASE Projection!Of(events, i, "tool") # {}
    BY <2>1, <2>2 DEF ItemOf, Projection!BlocksOf, Projection!AnswerOf, Projection!Tool
  <2>3. CASE Projection!Of(events, i, "tool") = {} /\ Projection!Of(events, i, "started") # {}
    BY <2>1, <2>3 DEF ItemOf, Projection!BlocksOf, Projection!AnswerOf, Projection!Tool
  <2>4. CASE Projection!Of(events, i, "tool") = {} /\ Projection!Of(events, i, "started") = {}
    <3> DEFINE text == Projection!TextOf(events, i)
               item == p.items[i]
    <3>1. item = Projection!TextItem(text)
      BY <2>1, <2>4 DEF ItemOf
    <3> HIDE DEF text, item
    <3>2. item.kind = "text" /\ item.text = text
      BY <3>1 DEF Projection!TextItem
    <3>3. Projection!BlocksOf(p, i) = IF text = <<>> THEN <<>> ELSE <<Projection!Text(text)>>
      BY <3>2 DEF Projection!BlocksOf, item
    <3>4. Projection!AnswerOf(events, i) = IF text = <<>> THEN <<>> ELSE <<Projection!Text(text)>>
      BY <2>4 DEF Projection!AnswerOf, text
    <3> QED
      BY <3>3, <3>4
  <2> QED
    BY <2>2, <2>3, <2>4
<1>3. \A n \in DOMAIN order : order[n] \in Mentioned(events)
    BY DEF Folds, Projection!Range
<1>4. blocks = parts
    BY <1>2, <1>3
<1>5. Projection!Blocks(p) = Projection!FlattenSeq(blocks)
    BY DEF Projection!Blocks, IsOf
<1>6. Projection!Answer(events) = Projection!FlattenSeq(parts)
    BY DEF Projection!Answer
<1>7. parts \in Seq(Seq(Pieces))
  <2>1. \A n \in DOMAIN order : Projection!AnswerOf(events, order[n]) \in Seq(Pieces)
    BY <1>1, AnswerType
  <2> HIDE DEF order
  <2> QED
    BY <1>1, <2>1
<1> HIDE DEF parts, blocks
<1> QED
    BY <1>4, <1>5, <1>6, <1>7, FlattenType

\* No answer is the mark that nothing was saved.
LEMMA AnswerIsSomething ==
    ASSUME NEW message \in Seq(Pieces)
    PROVE  message # Projection!NoMessage
<1>1. message # <<>> => message[1] \in Pieces
    OBVIOUS
<1>2. \A x \in Pieces : x.kind # "nothing"
    BY DEF Pieces
<1>3. Projection!NoMessage # <<>> /\ Projection!NoMessage[1].kind = "nothing"
    BY DEF Projection!NoMessage
<1> QED
    BY <1>1, <1>2, <1>3

\* A message that ends in final words.
LEMMA EndGrows ==
    ASSUME NEW events \in Seq(Happenings), NEW e \in Happenings
    PROVE  Projection!EndsInText(Append(events, e)) <=>
             e.kind = "text" \/ (e.kind = "usage" /\ Projection!EndsInText(events))
<1> DEFINE more == Append(events, e)
           N == Len(events)
<1>1. /\ more \in Seq(Happenings) /\ DOMAIN more = 1 .. N + 1 /\ DOMAIN events = 1 .. N /\ N \in Nat
      /\ Len(more) = N + 1 /\ more[N + 1] = e /\ \A n \in 1 .. N : more[n] = events[n]
    BY EventsGrow
<1> HIDE DEF more
<1>2. ASSUME NEW n \in 1 .. N + 1, more[n].kind = "text", \A m \in n + 1 .. N + 1 : more[m].kind = "usage"
      PROVE  e.kind = "text" \/ (e.kind = "usage" /\ Projection!EndsInText(events))
  <2>1. CASE n = N + 1
    BY <1>1, <1>2, <2>1
  <2>2. CASE n # N + 1
    <3>1. n \in 1 .. N /\ N + 1 \in n + 1 .. N + 1 /\ \A m \in n + 1 .. N : m \in n + 1 .. N + 1 /\ m \in 1 .. N
      BY <1>1, <2>2
    <3>2. e.kind = "usage" /\ events[n].kind = "text" /\ \A m \in n + 1 .. N : events[m].kind = "usage"
      BY <1>1, <1>2, <3>1
    <3> QED
      BY <1>1, <3>1, <3>2 DEF Projection!EndsInText
  <2> QED
    BY <2>1, <2>2
<1>3. ASSUME e.kind = "text"
      PROVE  Projection!EndsInText(more)
  <2>1. N + 1 \in DOMAIN more /\ more[N + 1].kind = "text" /\ \A m \in N + 1 + 1 .. Len(more) : more[m].kind = "usage"
    BY <1>1, <1>3
  <2> QED
    BY <2>1 DEF Projection!EndsInText
<1>4. ASSUME e.kind = "usage", Projection!EndsInText(events)
      PROVE  Projection!EndsInText(more)
  <2>1. PICK n \in 1 .. N : events[n].kind = "text" /\ \A m \in n + 1 .. N : events[m].kind = "usage"
    BY <1>1, <1>4 DEF Projection!EndsInText
  <2>2. n \in DOMAIN more /\ more[n].kind = "text"
    BY <1>1, <2>1
  <2>3. ASSUME NEW m \in n + 1 .. N + 1
        PROVE  more[m].kind = "usage"
    <3>1. m = N + 1 \/ (m \in n + 1 .. N /\ m \in 1 .. N)
      BY <1>1, <2>1
    <3> QED
      BY <1>1, <1>4, <2>1, <3>1
  <2> QED
    BY <1>1, <2>2, <2>3 DEF Projection!EndsInText
<1> QED
    BY <1>1, <1>2, <1>3, <1>4 DEF Projection!EndsInText, more

\* What comes first in a longer list is what came first.
LEMMA FoldsGrow ==
    ASSUME NEW events \in Seq(Happenings), NEW e \in Happenings, Folds(events)
    PROVE  Folds(Append(events, e))
<1> DEFINE more == Append(events, e)
           list == Projection!Mentions(events)
           list2 == Projection!Mentions(more)
<1>1. /\ list \in Seq(Nat)
      /\ list2 = IF e.kind = "usage" \/ e.item \in Mentioned(events) THEN list ELSE Append(list, e.item)
    BY MentionsGrow
<1>2. Mentioned(more) = IF e.kind = "usage" THEN Mentioned(events) ELSE Mentioned(events) \cup {e.item}
    BY EventsGrow
<1>3. e.item \in Nat
    BY DEF Happenings
<1>4. Projection!Range(list) = Mentioned(events)
    BY DEF Folds
<1>5. \A i : /\ Projection!Streamed(events, i) \in Seq(Nat)
             /\ Projection!Streamed(more, i) = IF e.item = i /\ e.kind = "delta"
                                               THEN Projection!Streamed(events, i) \o e.text
                                               ELSE Projection!Streamed(events, i)
    BY StreamedGrows
<1> HIDE DEF more, list, list2
<1>6. Projection!Range(Append(list, e.item)) = Projection!Range(list) \cup {e.item}
  <2> DEFINE longer == Append(list, e.item)
  <2>1. /\ DOMAIN longer = 1 .. Len(list) + 1 /\ DOMAIN list = 1 .. Len(list) /\ Len(list) \in Nat
        /\ longer[Len(list) + 1] = e.item /\ \A n \in 1 .. Len(list) : longer[n] = list[n]
    BY <1>1, <1>3
  <2> HIDE DEF longer
  <2>2. \A i : i \in Projection!Range(longer) <=> i \in Projection!Range(list) \/ i = e.item
    BY <2>1 DEF Projection!Range
  <2> QED
    BY <2>2 DEF longer
<1>7. Projection!Range(list2) = Mentioned(more)
    BY <1>1, <1>2, <1>4, <1>6
<1>8. ASSUME NEW i \in Nat \ Mentioned(more)
      PROVE  Projection!Streamed(more, i) = <<>>
  <2>1. i \notin Mentioned(events) /\ ~(e.item = i /\ e.kind = "delta")
    BY <1>2
  <2> QED
    BY <1>5, <2>1 DEF Folds
<1> QED
    BY <1>7, <1>8 DEF Folds, more, list2

\* A recorded event makes of a projection that of the longer list.
LEMMA ProjectMatches ==
    ASSUME NEW events \in Seq(Happenings), NEW e \in Happenings, Folds(events),
           \A m \in DOMAIN events : Fits(events[m], e), NEW p, Matches(p, events)
    PROVE  Matches(Projection!Project(p, e), Append(events, e))
<1> DEFINE more == Append(events, e)
           i == e.item
           old(j) == ItemOf(events, j)
           new(j) == ItemOf(more, j)
           known == i \in Mentioned(events)
<1>1. IsOf(p, events)
    BY DEF Matches
<1>2. e.kind \in Kinds /\ i \in Nat /\ e.text \in Seq(Nat)
    BY DEF Happenings
<1>3. Projection!Range(p.order) = Mentioned(events)
    BY <1>1 DEF IsOf, Folds
<1>4. Projection!Has(p, i) <=> known
    BY <1>3 DEF Projection!Has
<1>5. /\ Projection!Mentions(more) = IF e.kind = "usage" \/ known THEN p.order ELSE Append(p.order, i)
      /\ Mentioned(more) = IF e.kind = "usage" THEN Mentioned(events) ELSE Mentioned(events) \cup {i}
    BY <1>1, EventsGrow, MentionsGrow DEF IsOf
<1>6. ASSUME NEW j \in Nat
      PROVE  /\ i # j \/ e.kind = "usage" => new(j) = old(j)
             /\ i = j /\ e.kind = "delta" =>
                  IF known THEN new(j) = Projection!TextItem(old(j).text \o e.text) /\ old(j).kind = "text"
                  ELSE new(j) = Projection!TextItem(e.text)
             /\ i = j /\ e.kind = "text" => new(j) = Projection!TextItem(e.text)
             /\ i = j /\ e.kind = "started" => new(j) = IF known THEN old(j) ELSE Projection!Tool(FALSE)
             /\ i = j /\ e.kind = "tool" => new(j) = Projection!Tool(TRUE)
    BY ItemGrows
<1>7. Mentioned(events) \subseteq Nat
  <2>1. \A n \in DOMAIN events : events[n] \in Happenings
    OBVIOUS
  <2>2. \A h \in Happenings : h.item \in Nat
    BY DEF Happenings
  <2> QED
    BY <2>1, <2>2 DEF Mentioned
<1>8. \A j \in Mentioned(events) : p.items[j] = old(j)
    BY <1>1 DEF IsOf
<1>9. Projection!EndsInText(more) <=> e.kind = "text" \/ (e.kind = "usage" /\ Projection!EndsInText(events))
    BY EndGrows
<1> HIDE DEF more, old, new, known
\* What is put for the item is its new form.
<1>10. ASSUME NEW item, item = new(i), e.kind # "usage"
       PROVE  IsOf(Projection!Put(p, i, item), more)
  <2> DEFINE q == Projection!Put(p, i, item)
             items == [j \in Mentioned(events) \cup {i} |-> IF j = i THEN item ELSE p.items[j]]
  <2>1. /\ q = [order |-> q.order, items |-> q.items, snapshot |-> q.snapshot]
        /\ q.order = IF known THEN p.order ELSE Append(p.order, i)
        /\ q.items = items
    BY <1>3, <1>4 DEF Projection!Put
  <2>2. items = [j \in Mentioned(more) |-> new(j)]
    <3>1. Mentioned(more) = Mentioned(events) \cup {i}
      BY <1>5, <1>10
    <3>2. \A j \in Mentioned(events) \cup {i} : (IF j = i THEN item ELSE p.items[j]) = new(j)
      BY <1>2, <1>6, <1>7, <1>8, <1>10
    <3> QED
      BY <3>1, <3>2
  <2> HIDE DEF q, items
  <2> QED
    BY <1>5, <1>10, <2>1, <2>2 DEF IsOf, new, q
\* What is left as it was is of the longer list as well.
<1>11. ASSUME e.kind = "usage" \/ known, known => new(i) = old(i)
       PROVE  IsOf(p, more)
  <2>1. Mentioned(more) = Mentioned(events) /\ Projection!Mentions(more) = p.order
    BY <1>5, <1>11 DEF known
  <2>2. \A j \in Mentioned(events) : new(j) = old(j)
    BY <1>6, <1>7, <1>11
  <2>3. p.items = [j \in Mentioned(events) |-> old(j)]
    BY <1>1 DEF IsOf, old
  <2>4. p.items = [j \in Mentioned(more) |-> new(j)]
    BY <2>1, <2>2, <2>3
  <2> QED
    BY <1>1, <2>1, <2>4 DEF IsOf, new
<1>12. CASE e.kind = "delta"
  <2>1. CASE ~known
    BY <1>2, <1>4, <1>6, <1>9, <1>10, <1>12, <2>1 DEF Projection!Project, Matches, more
  <2>2. CASE known
    <3>1. p.items[i] = old(i) /\ old(i).kind = "text"
      BY <1>2, <1>6, <1>8, <1>12, <2>2 DEF known
    <3>2. Projection!Project(p, e) = Projection!Put(p, i, Projection!TextItem(old(i).text \o e.text))
      BY <1>4, <1>12, <2>2, <3>1 DEF Projection!Project
    <3>3. new(i) = Projection!TextItem(old(i).text \o e.text)
      BY <1>2, <1>6, <1>12, <2>2
    <3> QED
      BY <1>9, <1>10, <1>12, <3>2, <3>3 DEF Matches, more
  <2> QED
    BY <2>1, <2>2
<1>13. CASE e.kind = "text"
  <2> DEFINE q == Projection!PutFinal(p, e)
             r == [q EXCEPT !.snapshot = Projection!Blocks(q)]
  <2>1. IsOf(q, more)
    BY <1>2, <1>6, <1>10, <1>13 DEF Projection!PutFinal
  <2> HIDE DEF q
  <2>2. /\ q = [order |-> q.order, items |-> q.items, snapshot |-> q.snapshot]
    BY <2>1 DEF IsOf
  <2>3. /\ r = [order |-> r.order, items |-> r.items, snapshot |-> r.snapshot]
        /\ r.order = q.order /\ r.items = q.items /\ r.snapshot = Projection!Blocks(q)
    BY <2>2
  <2>4. Projection!Project(p, e) = r
    BY <1>13 DEF Projection!Project, q
  <2> HIDE DEF r
  <2>5. IsOf(r, more)
    BY <2>1, <2>3, Zenon DEF IsOf
  <2>6. Projection!Blocks(r) = Projection!Blocks(q)
    BY <2>3 DEF Projection!Blocks, Projection!BlocksOf
  <2>7. more \in Seq(Happenings) /\ Folds(more)
    BY EventsGrow, FoldsGrow DEF more
  <2>8. r.snapshot # Projection!NoMessage
    BY <2>1, <2>3, <2>7, BlocksAreAnswer, AnswerIsSomething
  <2> QED
    BY <2>3, <2>4, <2>5, <2>6, <2>8 DEF Matches, more
<1>14. CASE e.kind = "started"
  <2>1. CASE known
    <3>1. Projection!Project(p, e) = p
      BY <1>4, <1>14, <2>1 DEF Projection!Project
    <3>2. IsOf(p, more)
      BY <1>2, <1>6, <1>11, <1>14, <2>1
    <3> QED
      BY <1>9, <1>14, <3>1, <3>2 DEF Matches, more
  <2>2. CASE ~known
    BY <1>2, <1>4, <1>6, <1>9, <1>10, <1>14, <2>2 DEF Projection!Project, Matches, more
  <2> QED
    BY <2>1, <2>2
<1>15. CASE e.kind = "tool"
  BY <1>2, <1>6, <1>9, <1>10, <1>15 DEF Projection!Project, Matches, more
<1>16. CASE e.kind = "usage"
  <2>1. Projection!Project(p, e) = p
    BY <1>16 DEF Projection!Project
  <2>2. IsOf(p, more)
    BY <1>2, <1>6, <1>11, <1>16
  <2> QED
    BY <1>9, <1>16, <2>1, <2>2 DEF Matches, more
<1> QED
    BY <1>2, <1>12, <1>13, <1>14, <1>15, <1>16 DEF Kinds

\* A turn that begins has a projection of nothing.
LEMMA NothingMatches ==
    /\ <<>> \in Seq(Happenings) /\ Folds(<<>>) /\ Matches(Projection!NoProjection, <<>>)
    /\ ~Projection!EndsInText(<<>>)
<1>1. Mentioned(<<>>) = {}
    BY DEF Mentioned
<1>2. Projection!Mentions(<<>>) = <<>>
  <2>1. [n \in DOMAIN <<>> |-> IF Projection!IsFirst(<<>>, n) THEN <<<<>>[n].item>> ELSE <<>>] = <<>>
    OBVIOUS
  <2> QED
    BY <2>1 DEF Projection!Mentions, Projection!FlattenSeq
<1>3. ASSUME NEW i
      PROVE  Projection!Streamed(<<>>, i) = <<>>
  <2>1. [n \in DOMAIN <<>> |-> IF n \in Projection!Of(<<>>, i, "delta") THEN <<>>[n].text ELSE <<>>] = <<>>
    OBVIOUS
  <2> QED
    BY <2>1 DEF Projection!Streamed, Projection!FlattenSeq
<1>4. Folds(<<>>)
    BY <1>1, <1>2, <1>3 DEF Folds, Projection!Range
<1>5. [i \in Mentioned(<<>>) |-> ItemOf(<<>>, i)] = <<>>
    BY <1>1
<1>6. ~Projection!EndsInText(<<>>)
    BY DEF Projection!EndsInText
<1>7. IsOf(Projection!NoProjection, <<>>)
    BY <1>2, <1>5 DEF IsOf, Projection!NoProjection
<1> QED
    BY <1>4, <1>6, <1>7 DEF Matches

\* A projection of events is one.
LEMMA MatchesIsTracked ==
    ASSUME NEW events \in Seq(Happenings), Folds(events), NEW p, IsOf(p, events)
    PROVE  p # Projection!Absent
<1> SUFFICES ASSUME p = Projection!Absent PROVE FALSE
    OBVIOUS
<1>1. p.order = <<0>> /\ p.items = <<>>
    BY DEF Projection!Absent, Projection!NoProjection
<1>2. 0 \in Mentioned(events)
    BY <1>1 DEF IsOf, Folds, Projection!Range
<1>3. DOMAIN p.items = Mentioned(events)
    BY DEF IsOf
<1> QED
    BY <1>1, <1>2, <1>3

Ways == {"none", "running", "ended", "failed", "lost"}
Records == {"none", "failed", "watchdog", "completed"}

\* The highest count of some events.
Counts(events) == {0} \cup {e.item : e \in {x \in Projection!Range(events) : x.kind = "usage"}}
IsTop(n, events) == n \in Counts(events) /\ \A m \in Counts(events) : m <= n

IsPrefixAnswer(message, events) ==
    \E n \in 0 .. Len(events) : message = Projection!Answer(SubSeq(events, 1, n))

ProjTypes ==
    /\ spoken \in Conversations
    /\ spokenSoFar \in [Turns -> Nat] /\ current \in Turns \cup {0} /\ repeats \in Nat
    /\ billed \in [Turns -> Nat] /\ usage \in [Turns -> Nat]
    /\ shown \in [Turns -> Ways] /\ record \in [Turns -> Records]
    /\ heard \in [Turns -> Seq(Happenings)]
    /\ DOMAIN turns = Turns /\ DOMAIN saved = Turns /\ DOMAIN captured = Turns /\ DOMAIN view = Turns

\* What was recorded of a turn was said.
HeardInv(t) ==
    /\ Folds(heard[t])
    /\ \A n \in DOMAIN heard[t] : \E m \in 1 .. spokenSoFar[t] : m \in DOMAIN spoken[t] /\ spoken[t][m] = heard[t][n]

\* The turns whose end could not be saved, each once.
IsRetained(t) == \E n \in DOMAIN failed : failed[n] = t
RetainedInv ==
    /\ failed \in Seq(Turns) /\ Len(failed) <= MaxRetained
    /\ \A m, n \in DOMAIN failed : failed[m] = failed[n] => m = n
    /\ \A t \in Turns : IsRetained(t) =>
         Projection!Tracked(t) /\ shown[t] = "failed" /\ record[t] # "completed"

\* So many later turns could not be saved that t was given up.
Crowded(t) ==
    shown[t] = "failed" /\ Cardinality({u \in Turns \ {t} : shown[u] = "failed"}) >= MaxRetained

\* A turn that has not begun.
Waiting(t) ==
    /\ heard[t] = <<>> /\ record[t] = "none" /\ spokenSoFar[t] = 0 /\ usage[t] = 0 /\ billed[t] = 0
    /\ saved[t] = Projection!NoMessage /\ captured[t] = Projection!NoMessage /\ ~Projection!Tracked(t)

TurnInv(t) ==
    /\ shown[t] = "none" => Waiting(t)
    /\ current = t <=> shown[t] = "running"
    /\ current = t => Projection!Tracked(t)
    /\ Projection!Tracked(t) => Matches(turns[t], heard[t]) /\ (current = t \/ IsRetained(t))
    /\ record[t] = "completed" => ~Projection!Tracked(t) /\ spokenSoFar[t] > Len(spoken[t])
    /\ captured[t] # Projection!NoMessage => IsPrefixAnswer(captured[t], heard[t])
    /\ saved[t] # Projection!NoMessage => IsPrefixAnswer(saved[t], heard[t])
    /\ captured[t] = Projection!NoMessage /\ record[t] # "completed" => saved[t] = Projection!NoMessage

\* What was charged.
UsageInv(t) ==
    /\ Projection!Tracked(t) => IsTop(usage[t], heard[t])
    /\ Projection!Tracked(t) /\ spokenSoFar[t] <= Len(spoken[t]) => billed[t] = usage[t]
    /\ \E n \in Nat : IsTop(n, heard[t]) /\ usage[t] <= n

\* What a turn that is over has of its answer.
EndInv(t) ==
    /\ record[t] = "completed" /\ captured[t] = Projection!NoMessage /\ shown[t] # "lost" =>
         \/ Projection!Answer(heard[t]) = <<>> \/ saved[t] = Projection!Answer(heard[t])
         \/ Crowded(t) /\ saved[t] = Projection!NoMessage
    /\ shown[t] # "none" /\ ~Projection!Tracked(t) /\ record[t] # "completed"
         /\ captured[t] = Projection!NoMessage /\ shown[t] # "lost" =>
         Crowded(t) \/ (spokenSoFar[t] > Len(spoken[t]) /\ repeats >= MaxRepeats)
    /\ record[t] = "completed" /\ shown[t] = "ended" /\ captured[t] = Projection!NoMessage
         /\ Projection!EndsInText(heard[t]) =>
         view[t] = IF saved[t] = Projection!NoMessage THEN <<>> ELSE saved[t]

AllOf(t) == HeardInv(t) /\ TurnInv(t) /\ UsageInv(t) /\ EndInv(t)
ProjectionInv == ProjTypes /\ RetainedInv /\ \A t \in Turns : AllOf(t)

\* Turns that failed do not come back.
LEMMA CrowdedStays ==
    ASSUME NEW u \in Turns, Crowded(u), \A v \in Turns : shown[v] = "failed" => shown'[v] = "failed"
    PROVE  Crowded(u)'
<1> DEFINE old == {v \in Turns \ {u} : shown[v] = "failed"}
           new == {v \in Turns \ {u} : shown'[v] = "failed"}
<1>1. old \subseteq new /\ new \subseteq Turns
    OBVIOUS
<1>2. IsFiniteSet(Turns) /\ MaxRetained \in Nat
    BY TurnsAreNumbered
<1>3. IsFiniteSet(new) /\ IsFiniteSet(old)
    BY <1>1, <1>2, FS_Subset
<1> HIDE DEF old, new
<1>4. Cardinality(old) \in Nat /\ Cardinality(new) \in Nat /\ Cardinality(old) <= Cardinality(new)
    BY <1>1, <1>3, FS_Subset, FS_CardinalityType
<1>5. Cardinality(old) >= MaxRetained
    BY DEF Crowded, old
<1>6. Cardinality(new) >= MaxRetained
    BY <1>2, <1>4, <1>5
<1> QED
    BY <1>6 DEF Crowded, new

\* A turn that a step leaves alone.
LEMMA SameKeeps ==
    ASSUME NEW u \in Turns, AllOf(u), repeats \in Nat, repeats' \in Nat, repeats' >= repeats,
           spoken' = spoken, spokenSoFar'[u] = spokenSoFar[u], turns'[u] = turns[u], heard'[u] = heard[u],
           billed'[u] = billed[u], usage'[u] = usage[u], record'[u] = record[u], saved'[u] = saved[u],
           captured'[u] = captured[u], view'[u] = view[u], shown'[u] = shown[u],
           current = u <=> current' = u, Projection!Tracked(u) /\ IsRetained(u) => IsRetained(u)',
           \A v \in Turns : shown[v] = "failed" => shown'[v] = "failed"
    PROVE  AllOf(u)'
<1>1. HeardInv(u)'
    BY DEF AllOf, HeardInv
<1>2. Projection!Tracked(u)' <=> Projection!Tracked(u)
    BY DEF Projection!Tracked
<1>3. Waiting(u) => Waiting(u)'
    BY <1>2 DEF Waiting
<1>4. TurnInv(u)'
    BY <1>2, <1>3 DEF AllOf, TurnInv
<1>5. UsageInv(u)'
    BY <1>2 DEF AllOf, UsageInv
<1>6. Crowded(u) => Crowded(u)'
    BY CrowdedStays
<1>7. repeats >= MaxRepeats => repeats' >= MaxRepeats
    BY TurnsAreNumbered
<1>8. EndInv(u)'
    BY <1>2, <1>6, <1>7 DEF AllOf, EndInv
<1> QED
    BY <1>1, <1>4, <1>5, <1>8 DEF AllOf

LEMMA SpokenIs ==
    ASSUME ProjTypes, NEW t \in Turns
    PROVE  /\ Len(spoken[t]) \in Nat /\ DOMAIN spoken[t] = 1 .. Len(spoken[t])
           /\ \A n \in DOMAIN spoken[t] : spoken[t][n] \in Happenings
           /\ \A n \in DOMAIN spoken[t] : \A m \in 1 .. n - 1 : Fits(spoken[t][m], spoken[t][n])
<1> DEFINE talk == spoken[t]
<1>1. IsList(talk) /\ \A n \in DOMAIN talk : IsEvent(talk[n]) /\ \A m \in 1 .. n - 1 : Fits(talk[m], talk[n])
    BY ItemsFit DEF ProjTypes
<1> HIDE DEF talk
<1>2. Len(talk) \in Nat /\ DOMAIN talk = 1 .. Len(talk)
    BY <1>1 DEF IsList
<1>3. ASSUME NEW e, IsEvent(e)
      PROVE  e \in Happenings
    BY <1>3 DEF IsEvent, Happenings, Kinds
<1> QED
    BY <1>1, <1>2, <1>3 DEF talk

\* What is blocks of a projection is the answer so far.
LEMMA TrackedIs ==
    ASSUME ProjTypes, NEW t \in Turns, AllOf(t), Projection!Tracked(t)
    PROVE  /\ Projection!Message(t) = Projection!Answer(heard[t])
           /\ Projection!Blocks(turns[t]) = Projection!Answer(heard[t])
           /\ Projection!Answer(heard[t]) # Projection!NoMessage
           /\ IsPrefixAnswer(Projection!Answer(heard[t]), heard[t])
<1>1. heard[t] \in Seq(Happenings) /\ Folds(heard[t]) /\ IsOf(turns[t], heard[t])
    BY DEF ProjTypes, AllOf, HeardInv, TurnInv, Matches
<1>2. Projection!Blocks(turns[t]) = Projection!Answer(heard[t]) /\ Projection!Answer(heard[t]) \in Seq(Pieces)
    BY <1>1, BlocksAreAnswer
<1>3. Projection!Message(t) = Projection!Blocks(turns[t])
    BY DEF Projection!Message
<1>4. Projection!Answer(heard[t]) # Projection!NoMessage
    BY <1>2, AnswerIsSomething
<1>5. IsPrefixAnswer(Projection!Answer(heard[t]), heard[t])
  <2>1. Len(heard[t]) \in 0 .. Len(heard[t]) /\ SubSeq(heard[t], 1, Len(heard[t])) = heard[t]
    BY <1>1
  <2> QED
    BY <2>1 DEF IsPrefixAnswer
<1> QED
    BY <1>2, <1>3, <1>4, <1>5

LEMMA StartTurnKeeps ==
    ASSUME ProjectionInv, NEW t \in Turns, Projection!StartTurn(t)
    PROVE  ProjectionInv'
<1> USE DEF Projection!StartTurn
<1>1. ProjTypes /\ RetainedInv /\ \A u \in Turns : AllOf(u)
    BY DEF ProjectionInv
<1>2. Waiting(t) /\ ~IsRetained(t)
    BY <1>1 DEF AllOf, TurnInv, RetainedInv
<1>3. ProjTypes'
    BY <1>1 DEF ProjTypes, Ways
<1>4. RetainedInv'
  <2>1. \A u \in Turns : IsRetained(u)' <=> IsRetained(u)
    BY DEF IsRetained
  <2>2. \A u \in Turns : IsRetained(u) => Projection!Tracked(u)' /\ shown'[u] = "failed" /\ record'[u] # "completed"
    BY <1>1, <1>2 DEF RetainedInv, ProjTypes, Projection!Tracked
  <2> QED
    BY <1>1, <2>1, <2>2 DEF RetainedInv
<1>5. t # 0 /\ 0 \notin Turns
    BY TurnsAreNumbered
<1>6. ASSUME NEW u \in Turns, u # t
      PROVE  AllOf(u)'
  <2>1. current = u <=> current' = u
    BY <1>5, <1>6
  <2>2. IsRetained(u) => IsRetained(u)'
    BY DEF IsRetained
  <2>3. \A v \in Turns : shown[v] = "failed" => shown'[v] = "failed"
    BY <1>1 DEF ProjTypes
  <2> QED
    BY <1>1, <1>6, <2>1, <2>2, <2>3, SameKeeps DEF ProjTypes
<1>7. AllOf(t)'
  <2>1. heard'[t] = <<>> /\ turns'[t] = Projection!NoProjection /\ shown'[t] = "running" /\ current' = t
    BY <1>1, <1>2 DEF ProjTypes, Waiting
  <2>2. Projection!Tracked(t)'
    BY <2>1, NothingMatches, MatchesIsTracked DEF Matches, Projection!Tracked
  <2>3. HeardInv(t)'
    BY <2>1, NothingMatches DEF HeardInv
  <2>4. TurnInv(t)'
    BY <1>2, <2>1, <2>2, NothingMatches DEF TurnInv, Waiting
  <2>5. UsageInv(t)'
    <3>1. IsTop(0, <<>>)
      BY DEF IsTop, Counts, Projection!Range
    <3> QED
      BY <1>2, <2>1, <3>1 DEF UsageInv, Waiting
  <2>6. EndInv(t)'
    BY <1>2, <2>1, <2>2 DEF EndInv, Waiting
  <2> QED
    BY <2>3, <2>4, <2>5, <2>6 DEF AllOf
<1> QED
    BY <1>3, <1>4, <1>6, <1>7 DEF ProjectionInv

LEMMA LoseKeeps ==
    ASSUME ProjectionInv, NEW t \in Turns, Projection!Lose(t)
    PROVE  ProjectionInv'
<1> USE DEF Projection!Lose, Projection!Say, Projection!Begun
<1>1. ProjTypes /\ RetainedInv /\ \A u \in Turns : AllOf(u)
    BY DEF ProjectionInv
<1>2. spokenSoFar[t] \in Nat /\ spokenSoFar'[t] = spokenSoFar[t] + 1 /\ spokenSoFar[t] < Len(spoken[t])
      /\ Len(spoken[t]) \in Nat /\ shown[t] # "none"
    BY <1>1, SpokenIs DEF ProjTypes
<1>3. ProjTypes'
    BY <1>1, <1>2 DEF ProjTypes
<1>4. \A u \in Turns : (IsRetained(u)' <=> IsRetained(u)) /\ (Projection!Tracked(u)' <=> Projection!Tracked(u))
    BY DEF IsRetained, Projection!Tracked
<1>5. RetainedInv'
    BY <1>1, <1>4 DEF RetainedInv
<1>6. ASSUME NEW u \in Turns, u # t
      PROVE  AllOf(u)'
  <2>1. spokenSoFar'[u] = spokenSoFar[u]
    BY <1>1, <1>6 DEF ProjTypes
  <2> QED
    BY <1>1, <1>4, <2>1, SameKeeps DEF ProjTypes
<1>7. AllOf(t)'
  <2>1. HeardInv(t)'
    BY <1>1, <1>2 DEF AllOf, HeardInv
  <2>2. TurnInv(t)'
    BY <1>1, <1>2, <1>4 DEF AllOf, TurnInv
  <2>3. UsageInv(t)'
    BY <1>1, <1>2, <1>4 DEF AllOf, UsageInv
  <2>4. Crowded(t) => Crowded(t)'
    BY CrowdedStays
  <2>5. EndInv(t)'
    BY <1>1, <1>2, <1>4, <2>4 DEF AllOf, EndInv
  <2> QED
    BY <2>1, <2>2, <2>3, <2>5 DEF AllOf
<1> QED
    BY <1>3, <1>5, <1>6, <1>7 DEF ProjectionInv

LEMMA TopGrows ==
    ASSUME NEW events \in Seq(Happenings), NEW e \in Happenings, NEW n \in Nat, IsTop(n, events)
    PROVE  IsTop(IF e.kind = "usage" /\ e.item > n THEN e.item ELSE n, Append(events, e))
<1> DEFINE more == Append(events, e)
           N == Len(events)
<1>1. /\ DOMAIN more = 1 .. N + 1 /\ DOMAIN events = 1 .. N /\ N \in Nat
      /\ more[N + 1] = e /\ \A m \in 1 .. N : more[m] = events[m]
    BY EventsGrow
<1> HIDE DEF more
<1>2. Projection!Range(more) = Projection!Range(events) \cup {e}
  <2>1. \A x : x \in Projection!Range(more) <=> x \in Projection!Range(events) \/ x = e
    BY <1>1 DEF Projection!Range
  <2> QED
    BY <2>1
<1>3. Counts(more) = Counts(events) \cup (IF e.kind = "usage" THEN {e.item} ELSE {})
    BY <1>2 DEF Counts
<1>4. e.item \in Nat
    BY DEF Happenings
<1>5. Counts(events) \subseteq Nat
  <2>1. \A x \in Projection!Range(events) : x \in Happenings
    BY DEF Projection!Range
  <2>2. \A x \in Happenings : x.item \in Nat
    BY DEF Happenings
  <2> QED
    BY <2>1, <2>2 DEF Counts
<1>6. CASE e.kind = "usage" /\ e.item > n
  <2>1. \A m \in Counts(events) : m <= e.item
    BY <1>4, <1>5, <1>6 DEF IsTop
  <2> QED
    BY <1>3, <1>4, <1>6, <2>1 DEF IsTop, more
<1>7. CASE ~(e.kind = "usage" /\ e.item > n)
  <2>1. \A m \in Counts(more) : m <= n
    BY <1>3, <1>4, <1>5, <1>7 DEF IsTop
  <2> QED
    BY <1>3, <1>7, <2>1 DEF IsTop, more
<1> QED
    BY <1>6, <1>7

LEMMA HigherOf ==
    ASSUME NEW a \in Nat, NEW b \in Nat
    PROVE  Projection!Max({a, b}) = IF b > a THEN b ELSE a
<1> DEFINE top == Projection!Max({a, b})
<1>1. \E x \in {a, b} : \A y \in {a, b} : x >= y
    OBVIOUS
<1>2. top \in {a, b} /\ \A y \in {a, b} : top >= y
    BY <1>1 DEF Projection!Max
<1> HIDE DEF top
<1>3. (top = a \/ top = b) /\ top >= a /\ top >= b
    BY <1>2
<1>4. top = IF b > a THEN b ELSE a
    BY <1>3
<1> QED
    BY <1>4 DEF top

LEMMA PrefixStays ==
    ASSUME NEW events \in Seq(Happenings), NEW e \in Happenings, NEW message, IsPrefixAnswer(message, events)
    PROVE  IsPrefixAnswer(message, Append(events, e))
<1>1. PICK n \in 0 .. Len(events) : message = Projection!Answer(SubSeq(events, 1, n))
    BY DEF IsPrefixAnswer
<1>2. n \in 0 .. Len(Append(events, e)) /\ SubSeq(Append(events, e), 1, n) = SubSeq(events, 1, n)
    OBVIOUS
<1> QED
    BY <1>1, <1>2 DEF IsPrefixAnswer

LEMMA HearKeeps ==
    ASSUME ProjectionInv, NEW t \in Turns, Projection!Hear(t)
    PROVE  ProjectionInv'
<1> USE DEF Projection!Say, Projection!Begun
<1> DEFINE e == spoken[t][spokenSoFar[t] + 1]
           events == heard[t]
           more == Append(events, e)
<1>1. ProjTypes /\ RetainedInv /\ \A u \in Turns : AllOf(u)
    BY DEF ProjectionInv
<1>2. /\ spokenSoFar[t] \in Nat /\ spokenSoFar'[t] = spokenSoFar[t] + 1 /\ spokenSoFar[t] < Len(spoken[t])
      /\ Len(spoken[t]) \in Nat /\ shown[t] # "none" /\ DOMAIN spoken[t] = 1 .. Len(spoken[t])
    BY <1>1, SpokenIs DEF ProjTypes, Projection!Hear
<1>3. spokenSoFar[t] + 1 \in DOMAIN spoken[t]
    BY <1>2
<1>4. e \in Happenings
  <2>1. \A n \in DOMAIN spoken[t] : spoken[t][n] \in Happenings
    BY <1>1, SpokenIs
  <2> QED
    BY <1>3, <2>1
<1>5. events \in Seq(Happenings) /\ Folds(events)
    BY <1>1 DEF ProjTypes, AllOf, HeardInv
<1>6. \A n \in DOMAIN events : Fits(events[n], e)
  <2>1. \A m \in 1 .. spokenSoFar[t] : Fits(spoken[t][m], e)
    <3>1. \A n \in DOMAIN spoken[t] : \A m \in 1 .. n - 1 : Fits(spoken[t][m], spoken[t][n])
      BY <1>1, SpokenIs
    <3> DEFINE k == spokenSoFar[t] + 1
    <3>2. k \in DOMAIN spoken[t] /\ k - 1 = spokenSoFar[t] /\ e = spoken[t][k]
      BY <1>2
    <3> HIDE DEF k, e
    <3>3. \A m \in 1 .. k - 1 : Fits(spoken[t][m], spoken[t][k])
      BY <3>1, <3>2
    <3> QED
      BY <3>2, <3>3
  <2>2. \A n \in DOMAIN events : \E m \in 1 .. spokenSoFar[t] : spoken[t][m] = events[n]
    BY <1>1 DEF AllOf, HeardInv
  <2> HIDE DEF e, events
  <2> QED
    BY <2>1, <2>2
<1>7. more \in Seq(Happenings) /\ Folds(more)
    BY <1>4, <1>5, EventsGrow, FoldsGrow
<1>8. /\ heard' = [heard EXCEPT ![t] = more]
      /\ UNCHANGED <<spoken, current, failed, record, saved, captured, shown, unsaved, repeats>>
      /\ spokenSoFar' = [spokenSoFar EXCEPT ![t] = @ + 1]
    BY DEF Projection!Hear
<1>9. IF ~Projection!Tracked(t) THEN UNCHANGED <<turns, view, billed, usage>>
      ELSE /\ turns' = [turns EXCEPT ![t] = Projection!Project(@, e)]
           /\ \E blocks : view' = [view EXCEPT ![t] = blocks]
           /\ IF e.kind # "usage" THEN UNCHANGED <<billed, usage>>
              ELSE /\ usage' = [usage EXCEPT ![t] = @ + Projection!UsageDelta(t, e.item)]
                   /\ billed' = [billed EXCEPT ![t] = Projection!Max({@, e.item})]
    BY DEF Projection!Hear
<1>10. e.item \in Nat /\ billed[t] \in Nat /\ usage[t] \in Nat
    BY <1>1, <1>4 DEF ProjTypes, Happenings
<1> HIDE DEF e
<1>11. /\ Projection!UsageDelta(t, e.item) = IF e.item > billed[t] THEN e.item - billed[t] ELSE 0
       /\ Projection!Max({billed[t], e.item}) = IF e.item > billed[t] THEN e.item ELSE billed[t]
    BY <1>10, HigherOf DEF Projection!UsageDelta
<1>12. heard'[t] = more
    BY <1>1, <1>8 DEF ProjTypes
<1>13. ASSUME NEW u \in Turns, u # t
       PROVE  /\ turns'[u] = turns[u] /\ heard'[u] = heard[u] /\ view'[u] = view[u] /\ billed'[u] = billed[u]
              /\ usage'[u] = usage[u] /\ spokenSoFar'[u] = spokenSoFar[u]
    BY <1>1, <1>8, <1>9, <1>13 DEF ProjTypes
<1>14. ProjTypes'
  <2>1. spokenSoFar' \in [Turns -> Nat]
    BY <1>1, <1>8 DEF ProjTypes
  <2>2. heard' \in [Turns -> Seq(Happenings)]
    BY <1>1, <1>7, <1>8 DEF ProjTypes
  <2>3. billed' \in [Turns -> Nat] /\ usage' \in [Turns -> Nat]
    <3>1. CASE ~Projection!Tracked(t) \/ e.kind # "usage"
      BY <1>1, <1>9, <3>1 DEF ProjTypes
    <3>2. CASE Projection!Tracked(t) /\ e.kind = "usage"
      <4>1. Projection!UsageDelta(t, e.item) \in Nat /\ Projection!Max({billed[t], e.item}) \in Nat
        BY <1>10, <1>11
      <4>2. usage[t] + Projection!UsageDelta(t, e.item) \in Nat
        BY <1>10, <4>1
      <4>3. /\ usage' = [usage EXCEPT ![t] = usage[t] + Projection!UsageDelta(t, e.item)]
            /\ billed' = [billed EXCEPT ![t] = Projection!Max({billed[t], e.item})]
        BY <1>9, <3>2
      <4>4. billed \in [Turns -> Nat] /\ usage \in [Turns -> Nat]
        BY <1>1 DEF ProjTypes
      <4> QED
        BY <4>1, <4>2, <4>3, <4>4
    <3> QED
      BY <3>1, <3>2
  <2>4. DOMAIN turns' = Turns /\ DOMAIN view' = Turns
    BY <1>1, <1>9 DEF ProjTypes
  <2> QED
    BY <1>1, <1>8, <2>1, <2>2, <2>3, <2>4 DEF ProjTypes
<1>15. Projection!Tracked(t)' <=> Projection!Tracked(t)
  <2>1. CASE Projection!Tracked(t)
    <3>1. Matches(turns[t], events)
      BY <1>1, <2>1 DEF AllOf, TurnInv
    <3>2. turns'[t] = Projection!Project(turns[t], e)
      BY <1>1, <1>9, <2>1 DEF ProjTypes
    <3>3. Matches(turns'[t], more)
      BY <1>4, <1>5, <1>6, <3>1, <3>2, ProjectMatches
    <3>4. turns'[t] # Projection!Absent
      BY <1>7, <3>3, MatchesIsTracked DEF Matches
    <3> QED
      BY <2>1, <3>4 DEF Projection!Tracked
  <2>2. CASE ~Projection!Tracked(t)
    BY <1>9, <2>2 DEF Projection!Tracked
  <2> QED
    BY <2>1, <2>2
<1>16. Projection!Tracked(t) => Matches(turns'[t], more)
  <2> SUFFICES ASSUME Projection!Tracked(t) PROVE Matches(turns'[t], more)
    OBVIOUS
  <2>1. Matches(turns[t], events)
    BY <1>1 DEF AllOf, TurnInv
  <2>2. turns'[t] = Projection!Project(turns[t], e)
    BY <1>1, <1>9 DEF ProjTypes
  <2> QED
    BY <1>4, <1>5, <1>6, <2>1, <2>2, ProjectMatches
<1>17. RetainedInv'
  <2>1. \A u \in Turns : IsRetained(u)' <=> IsRetained(u)
    BY <1>8 DEF IsRetained
  <2>2. \A u \in Turns : Projection!Tracked(u)' <=> Projection!Tracked(u)
    BY <1>13, <1>15 DEF Projection!Tracked
  <2> QED
    BY <1>1, <1>8, <2>1, <2>2 DEF RetainedInv
<1>18. ASSUME NEW u \in Turns, u # t
       PROVE  AllOf(u)'
  <2>1. IsRetained(u)' <=> IsRetained(u)
    BY <1>8 DEF IsRetained
  <2>2. repeats' \in Nat /\ repeats \in Nat /\ repeats' >= repeats
    BY <1>1, <1>8 DEF ProjTypes
  <2> QED
    BY <1>1, <1>8, <1>13, <1>18, <2>1, <2>2, SameKeeps
<1>19. AllOf(t)'
  <2>1. HeardInv(t)'
    <3>1. ASSUME NEW n \in DOMAIN more
          PROVE  \E m \in 1 .. spokenSoFar[t] + 1 : m \in DOMAIN spoken[t] /\ spoken[t][m] = more[n]
      <4>1. /\ DOMAIN more = 1 .. Len(events) + 1 /\ DOMAIN events = 1 .. Len(events) /\ Len(events) \in Nat
            /\ more[Len(events) + 1] = e /\ \A k \in 1 .. Len(events) : more[k] = events[k]
        BY <1>4, <1>5, EventsGrow
      <4>2. CASE n = Len(events) + 1
        <5>1. spokenSoFar[t] + 1 \in 1 .. spokenSoFar[t] + 1 /\ more[n] = spoken[t][spokenSoFar[t] + 1]
          BY <1>2, <4>1, <4>2 DEF e
        <5> QED
          BY <1>3, <5>1
      <4>3. CASE n # Len(events) + 1
        <5>1. n \in DOMAIN events /\ more[n] = events[n]
          BY <3>1, <4>1, <4>3
        <5>2. PICK m \in 1 .. spokenSoFar[t] : m \in DOMAIN spoken[t] /\ spoken[t][m] = events[n]
          BY <1>1, <5>1 DEF AllOf, HeardInv
        <5> QED
          BY <1>2, <5>1, <5>2
      <4> QED
        BY <4>2, <4>3
    <3> QED
      BY <1>2, <1>7, <1>8, <1>12, <3>1 DEF HeardInv
  <2>2. TurnInv(t)'
    <3>1. record[t] # "completed"
      BY <1>1, <1>2 DEF AllOf, TurnInv
    <3>2. /\ captured[t] # Projection!NoMessage => IsPrefixAnswer(captured[t], more)
          /\ saved[t] # Projection!NoMessage => IsPrefixAnswer(saved[t], more)
      BY <1>1, <1>4, <1>5, PrefixStays DEF AllOf, TurnInv
    <3>3. IsRetained(t)' <=> IsRetained(t)
      BY <1>8 DEF IsRetained
    <3> QED
      BY <1>1, <1>2, <1>8, <1>12, <1>15, <1>16, <3>1, <3>2, <3>3 DEF AllOf, TurnInv
  <2>3. UsageInv(t)'
    <3>1. PICK n \in Nat : IsTop(n, events) /\ usage[t] <= n
      BY <1>1 DEF AllOf, UsageInv
    <3>2. CASE ~Projection!Tracked(t)
      <4>1. usage'[t] = usage[t]
        BY <1>9, <3>2
      <4>2. IsTop(IF e.kind = "usage" /\ e.item > n THEN e.item ELSE n, more)
        BY <1>4, <1>5, <3>1, TopGrows
      <4>3. \E k \in Nat : IsTop(k, more) /\ usage[t] <= k
        <5>1. (IF e.kind = "usage" /\ e.item > n THEN e.item ELSE n) \in Nat
          BY <1>10
        <5>2. usage[t] <= IF e.kind = "usage" /\ e.item > n THEN e.item ELSE n
          BY <1>10, <3>1
        <5> QED
          BY <4>2, <5>1, <5>2
      <4> QED
        BY <1>12, <1>15, <3>2, <4>1, <4>3 DEF UsageInv
    <3>3. CASE Projection!Tracked(t)
      <4>1. IsTop(usage[t], events) /\ billed[t] = usage[t]
        BY <1>1, <1>2, <3>3 DEF AllOf, UsageInv
      <4>2. IsTop(IF e.kind = "usage" /\ e.item > usage[t] THEN e.item ELSE usage[t], more)
        BY <1>4, <1>5, <1>10, <4>1, TopGrows
      <4>3. /\ usage'[t] = IF e.kind = "usage" /\ e.item > usage[t] THEN e.item ELSE usage[t]
            /\ billed'[t] = usage'[t]
        <5>1. CASE e.kind # "usage"
          BY <1>9, <3>3, <4>1, <5>1
        <5>2. CASE e.kind = "usage"
          <6>1. /\ usage'[t] = usage[t] + Projection!UsageDelta(t, e.item)
                /\ billed'[t] = Projection!Max({billed[t], e.item})
            BY <1>1, <1>9, <3>3, <5>2 DEF ProjTypes
          <6> QED
            BY <1>10, <1>11, <4>1, <5>2, <6>1
        <5> QED
          BY <5>1, <5>2
      <4>4. usage'[t] \in Nat
        BY <1>10, <4>3
      <4>5. IsTop(usage'[t], more)
        BY <4>2, <4>3
      <4> QED
        BY <1>12, <4>3, <4>4, <4>5 DEF UsageInv
    <3> QED
      BY <3>2, <3>3
  <2>4. EndInv(t)'
    <3>1. record[t] # "completed"
      BY <1>1, <1>2 DEF AllOf, TurnInv
    <3>2. Crowded(t) => Crowded(t)'
      BY <1>8, CrowdedStays
    <3>3. ~(spokenSoFar[t] > Len(spoken[t]))
      BY <1>2
    <3> QED
      BY <1>1, <1>8, <1>15, <3>1, <3>2, <3>3 DEF AllOf, EndInv
  <2> QED
    BY <2>1, <2>2, <2>3, <2>4 DEF AllOf
<1> QED
    BY <1>14, <1>17, <1>18, <1>19 DEF ProjectionInv

\* What every terminal does.
LEMMA TerminalIs ==
    ASSUME ProjTypes, NEW t \in Turns, Projection!Terminal(t)
    PROVE  /\ spokenSoFar' \in [Turns -> Nat] /\ billed' \in [Turns -> Nat] /\ repeats' \in Nat
           /\ \A u \in Turns \ {t} : spokenSoFar'[u] = spokenSoFar[u] /\ billed'[u] = billed[u]
           /\ spokenSoFar'[t] = Len(spoken[t]) + 1 /\ spokenSoFar'[t] > Len(spoken[t])
           /\ repeats' >= repeats /\ shown[t] # "none"
           /\ spokenSoFar[t] > Len(spoken[t]) => repeats < MaxRepeats
           /\ record[t] = "completed" => billed'[t] = billed[t]
<1> USE DEF Projection!Terminal, Projection!Begun
<1>1. Len(spoken[t]) \in Nat
    BY SpokenIs
<1>2. /\ spokenSoFar \in [Turns -> Nat] /\ billed \in [Turns -> Nat] /\ repeats \in Nat
    BY DEF ProjTypes
<1>3. Len(spoken[t]) + 1 \in Nat /\ Len(spoken[t]) + 1 > Len(spoken[t])
    BY <1>1
<1>4. /\ spokenSoFar' = [spokenSoFar EXCEPT ![t] = Len(spoken[t]) + 1]
      /\ billed' = [billed EXCEPT ![t] = IF record[t] = "completed" THEN billed[t] ELSE 0]
    OBVIOUS
<1>5. spokenSoFar[t] > Len(spoken[t]) => repeats < MaxRepeats
    BY <1>1, <1>2
<1>6. repeats' \in Nat /\ repeats' >= repeats
    BY <1>2
<1> QED
    BY <1>2, <1>3, <1>4, <1>5, <1>6

\* The terminal reaches what was said, so that what was recorded is among it.
LEMMA HeardStays ==
    ASSUME ProjTypes, NEW t \in Turns, AllOf(t), spoken' = spoken, heard'[t] = heard[t],
           spokenSoFar'[t] = Len(spoken[t]) + 1
    PROVE  HeardInv(t)'
<1>1. Len(spoken[t]) \in Nat /\ DOMAIN spoken[t] = 1 .. Len(spoken[t])
    BY SpokenIs
<1>2. \A m \in DOMAIN spoken[t] : m \in 1 .. Len(spoken[t]) + 1
    BY <1>1
<1> QED
    BY <1>2 DEF HeardInv, AllOf

LEMMA TerminalAgainKeeps ==
    ASSUME ProjectionInv, NEW t \in Turns, Projection!TerminalAgain(t)
    PROVE  ProjectionInv'
<1> USE DEF Projection!TerminalAgain
<1>1. ProjTypes /\ RetainedInv /\ \A u \in Turns : AllOf(u)
    BY DEF ProjectionInv
<1>2. /\ spokenSoFar' \in [Turns -> Nat] /\ billed' \in [Turns -> Nat] /\ repeats' \in Nat
      /\ \A u \in Turns \ {t} : spokenSoFar'[u] = spokenSoFar[u] /\ billed'[u] = billed[u]
      /\ spokenSoFar'[t] = Len(spoken[t]) + 1 /\ spokenSoFar'[t] > Len(spoken[t])
      /\ repeats' >= repeats /\ shown[t] # "none" /\ billed'[t] = billed[t] /\ record[t] = "completed"
    BY <1>1, TerminalIs
<1>3. ProjTypes'
    BY <1>1, <1>2 DEF ProjTypes
<1>4. \A u \in Turns : (IsRetained(u)' <=> IsRetained(u)) /\ (Projection!Tracked(u)' <=> Projection!Tracked(u))
    BY DEF IsRetained, Projection!Tracked
<1>5. RetainedInv'
    BY <1>1, <1>4 DEF RetainedInv
<1>6. ASSUME NEW u \in Turns, u # t
      PROVE  AllOf(u)'
    BY <1>1, <1>2, <1>4, <1>6, SameKeeps DEF ProjTypes
<1>7. AllOf(t)'
  <2>1. HeardInv(t)'
    BY <1>1, <1>2, HeardStays
  <2>2. TurnInv(t)'
    BY <1>1, <1>2, <1>4 DEF AllOf, TurnInv
  <2>3. UsageInv(t)'
    BY <1>1, <1>2, <1>4 DEF AllOf, UsageInv, TurnInv
  <2>4. Crowded(t) => Crowded(t)'
    BY CrowdedStays
  <2>5. EndInv(t)'
    BY <1>1, <1>2, <1>4, <2>4 DEF AllOf, EndInv
  <2> QED
    BY <2>1, <2>2, <2>3, <2>5 DEF AllOf
<1> QED
    BY <1>3, <1>5, <1>6, <1>7 DEF ProjectionInv

LEMMA TerminalDroppedKeeps ==
    ASSUME ProjectionInv, NEW t \in Turns, Projection!TerminalDropped(t)
    PROVE  ProjectionInv'
<1> USE DEF Projection!TerminalDropped
<1>1. ProjTypes /\ RetainedInv /\ \A u \in Turns : AllOf(u)
    BY DEF ProjectionInv
<1>2. /\ spokenSoFar' \in [Turns -> Nat] /\ billed' \in [Turns -> Nat] /\ repeats' \in Nat
      /\ \A u \in Turns \ {t} : spokenSoFar'[u] = spokenSoFar[u] /\ billed'[u] = billed[u]
      /\ spokenSoFar'[t] = Len(spoken[t]) + 1 /\ spokenSoFar'[t] > Len(spoken[t])
      /\ repeats' >= repeats /\ shown[t] # "none" /\ record[t] # "completed"
      /\ spokenSoFar[t] > Len(spoken[t]) => repeats < MaxRepeats
    BY <1>1, TerminalIs
<1>3. ProjTypes'
    BY <1>1, <1>2 DEF ProjTypes
<1>4. \A u \in Turns : (IsRetained(u)' <=> IsRetained(u)) /\ (Projection!Tracked(u)' <=> Projection!Tracked(u))
    BY DEF IsRetained, Projection!Tracked
<1>5. RetainedInv'
    BY <1>1, <1>4 DEF RetainedInv
<1>6. ASSUME NEW u \in Turns, u # t
      PROVE  AllOf(u)'
    BY <1>1, <1>2, <1>4, <1>6, SameKeeps DEF ProjTypes
<1>7. AllOf(t)'
  <2>1. HeardInv(t)'
    BY <1>1, <1>2, HeardStays
  <2>2. TurnInv(t)'
    BY <1>1, <1>2, <1>4 DEF AllOf, TurnInv
  <2>6. Len(spoken[t]) \in Nat /\ spokenSoFar'[t] \in Nat
    BY <1>1, <1>2, SpokenIs
  <2>3. UsageInv(t)'
    BY <1>1, <1>2, <1>4, <2>6 DEF AllOf, UsageInv
  <2>4. Crowded(t) => Crowded(t)'
    BY CrowdedStays
  <2>7. repeats \in Nat /\ MaxRepeats \in Nat
    BY <1>1, TurnsAreNumbered DEF ProjTypes
  <2>8. ~(spokenSoFar[t] > Len(spoken[t]) /\ repeats >= MaxRepeats)
    BY <1>2, <2>7
  <2>5. EndInv(t)'
    BY <1>1, <1>2, <1>4, <2>4, <2>8 DEF AllOf, EndInv
  <2> QED
    BY <2>1, <2>2, <2>3, <2>5 DEF AllOf
<1> QED
    BY <1>3, <1>5, <1>6, <1>7 DEF ProjectionInv

LEMMA WatchdogCopiesKeeps ==
    ASSUME ProjectionInv, NEW t \in Turns, Projection!WatchdogCopies(t)
    PROVE  ProjectionInv'
<1> USE DEF Projection!WatchdogCopies
<1>1. ProjTypes /\ RetainedInv /\ \A u \in Turns : AllOf(u)
    BY DEF ProjectionInv
<1>2. Projection!Tracked(t)
    BY <1>1 DEF AllOf, TurnInv
<1>3. /\ captured'[t] = Projection!Answer(heard[t]) /\ captured'[t] # Projection!NoMessage
      /\ IsPrefixAnswer(captured'[t], heard[t])
    BY <1>1, <1>2, TrackedIs DEF ProjTypes
<1>4. ProjTypes'
    BY <1>1 DEF ProjTypes
<1>5. \A u \in Turns : (IsRetained(u)' <=> IsRetained(u)) /\ (Projection!Tracked(u)' <=> Projection!Tracked(u))
    BY DEF IsRetained, Projection!Tracked
<1>6. RetainedInv'
    BY <1>1, <1>5 DEF RetainedInv
<1>7. ASSUME NEW u \in Turns, u # t
      PROVE  AllOf(u)'
  <2>1. captured'[u] = captured[u]
    BY <1>1, <1>7 DEF ProjTypes
  <2> QED
    BY <1>1, <1>5, <2>1, SameKeeps DEF ProjTypes
<1>8. AllOf(t)'
  <2>1. HeardInv(t)'
    BY <1>1 DEF AllOf, HeardInv
  <2>2. TurnInv(t)'
    BY <1>1, <1>3, <1>5 DEF AllOf, TurnInv
  <2>3. UsageInv(t)'
    BY <1>1, <1>5 DEF AllOf, UsageInv
  <2>4. EndInv(t)'
    BY <1>1, <1>3 DEF AllOf, EndInv
  <2> QED
    BY <2>1, <2>2, <2>3, <2>4 DEF AllOf
<1> QED
    BY <1>4, <1>6, <1>7, <1>8 DEF ProjectionInv

LEMMA WatchdogSavesKeeps ==
    ASSUME ProjectionInv, NEW t \in Turns, Projection!WatchdogSaves(t)
    PROVE  ProjectionInv'
<1> USE DEF Projection!WatchdogSaves, Projection!Leave
<1>1. ProjTypes /\ RetainedInv /\ \A u \in Turns : AllOf(u)
    BY DEF ProjectionInv
<1>2. shown[t] = "running" /\ ~IsRetained(t)
    BY <1>1 DEF AllOf, TurnInv, RetainedInv
<1>3. t # 0 /\ 0 \notin Turns
    BY TurnsAreNumbered
<1>4. /\ current' = 0 /\ shown'[t] = "ended" /\ turns'[t] = Projection!Absent /\ record'[t] = "watchdog"
      /\ saved'[t] = IF captured[t] = <<>> THEN saved[t] ELSE captured[t]
      /\ captured'[t] # Projection!NoMessage
    BY <1>1 DEF ProjTypes
<1>5. ProjTypes'
    BY <1>1 DEF ProjTypes, Ways, Records
<1>6. \A u \in Turns \ {t} : /\ turns'[u] = turns[u] /\ record'[u] = record[u] /\ saved'[u] = saved[u]
                             /\ shown'[u] = shown[u]
    BY <1>1 DEF ProjTypes
<1>7. \A u \in Turns : IsRetained(u)' <=> IsRetained(u)
    BY DEF IsRetained
<1>8. RetainedInv'
  <2>1. \A u \in Turns : IsRetained(u) => Projection!Tracked(u)' /\ shown'[u] = "failed" /\ record'[u] # "completed"
    BY <1>1, <1>2, <1>6 DEF RetainedInv, Projection!Tracked
  <2> QED
    BY <1>1, <1>7, <2>1 DEF RetainedInv
<1>9. ASSUME NEW u \in Turns, u # t
      PROVE  AllOf(u)'
  <2>1. current = u <=> current' = u
    BY <1>3, <1>4, <1>9
  <2>2. \A v \in Turns : shown[v] = "failed" => shown'[v] = "failed"
    BY <1>2, <1>6
  <2>3. repeats \in Nat /\ repeats' \in Nat /\ repeats' >= repeats
    BY <1>1 DEF ProjTypes
  <2>4. /\ turns'[u] = turns[u] /\ record'[u] = record[u] /\ saved'[u] = saved[u] /\ shown'[u] = shown[u]
        /\ AllOf(u) /\ (IsRetained(u) => IsRetained(u)')
    BY <1>1, <1>6, <1>7, <1>9
  <2> QED
    BY <2>1, <2>2, <2>3, <2>4, SameKeeps
<1>10. AllOf(t)'
  <2>1. ~Projection!Tracked(t)'
    BY <1>4 DEF Projection!Tracked
  <2>2. HeardInv(t)'
    BY <1>1 DEF AllOf, HeardInv
  <2>3. TurnInv(t)'
    BY <1>1, <1>3, <1>4, <2>1 DEF AllOf, TurnInv
  <2>4. UsageInv(t)'
    BY <1>1, <2>1 DEF AllOf, UsageInv
  <2>5. EndInv(t)'
    BY <1>4 DEF EndInv
  <2> QED
    BY <2>2, <2>3, <2>4, <2>5 DEF AllOf
<1> QED
    BY <1>5, <1>8, <1>9, <1>10 DEF ProjectionInv

\* An element is taken out.
LEMMA RemovedIs ==
    ASSUME NEW S, NEW list \in Seq(S), NEW i \in DOMAIN list
    PROVE  LET rest == Projection!RemoveAt(list, i)
           IN  /\ rest \in Seq(S) /\ Len(rest) = Len(list) - 1
               /\ \A n \in 1 .. Len(list) - 1 : rest[n] = IF n < i THEN list[n] ELSE list[n + 1]
<1> DEFINE a == SubSeq(list, 1, i - 1)
           b == SubSeq(list, i + 1, Len(list))
           rest == Projection!RemoveAt(list, i)
<1>1. a \in Seq(S) /\ Len(a) = i - 1 /\ \A n \in 1 .. i - 1 : a[n] = list[n]
    OBVIOUS
<1>2. b \in Seq(S) /\ Len(b) = Len(list) - i /\ \A n \in 1 .. Len(list) - i : b[n] = list[i + n]
    OBVIOUS
<1>3. rest = a \o b
    BY DEF Projection!RemoveAt
<1> HIDE DEF a, b
<1>4. rest \in Seq(S) /\ Len(rest) = Len(list) - 1
    BY <1>1, <1>2, <1>3
<1>5. ASSUME NEW n \in 1 .. Len(list) - 1
      PROVE  rest[n] = IF n < i THEN list[n] ELSE list[n + 1]
  <2>1. CASE n < i
    BY <2>1, <1>1, <1>2, <1>3, <1>4
  <2>2. CASE ~(n < i)
    <3>1. rest[n] = b[n - Len(a)]
      <4>1. n \in 1 .. Len(a) + Len(b) /\ n > Len(a)
        BY <2>2, <1>1, <1>2
      <4>2. \A x, y \in Seq(S) : \A m \in 1 .. Len(x) + Len(y) : m > Len(x) => (x \o y)[m] = y[m - Len(x)]
        OBVIOUS
      <4> QED
        BY <1>1, <1>2, <1>3, <4>1, <4>2
    <3> DEFINE k == n - i + 1
    <3>2. k \in 1 .. Len(list) - i /\ n - Len(a) = k /\ i + k = n + 1
      BY <2>2, <1>1, <1>4
    <3>3. b[k] = list[i + k]
      BY <3>2, <1>2
    <3> QED
      BY <3>1, <3>2, <3>3, <2>2
  <2> QED
    BY <2>1, <2>2
<1> HIDE DEF rest
<1> QED
    BY <1>4, <1>5 DEF rest

\* A list of turns, without one of them.
LEMMA WithoutIs ==
    ASSUME NEW list \in Seq(Turns), NEW t, \A m, n \in DOMAIN list : list[m] = list[n] => m = n
    PROVE  LET rest == Projection!Without(list, t)
           IN  /\ rest \in Seq(Turns) /\ Len(rest) <= Len(list)
               /\ \A m, n \in DOMAIN rest : rest[m] = rest[n] => m = n
               /\ \A u : (\E n \in DOMAIN rest : rest[n] = u) <=> u # t /\ \E n \in DOMAIN list : list[n] = u
<1> DEFINE rest == Projection!Without(list, t)
           N == Len(list)
<1>1. N \in Nat /\ DOMAIN list = 1 .. N
    OBVIOUS
<1>2. CASE \A n \in DOMAIN list : list[n] # t
  <2>1. rest = list
    BY <1>2 DEF Projection!Without, Projection!Range
  <2> QED
    BY <1>1, <1>2, <2>1
<1>3. CASE \E n \in DOMAIN list : list[n] = t
  <2> DEFINE i == CHOOSE n \in DOMAIN list : list[n] = t
  <2>1. i \in 1 .. N /\ list[i] = t
    BY <1>1, <1>3
  <2>2. rest = Projection!RemoveAt(list, i)
    BY <1>3 DEF Projection!Without, Projection!Range
  <2> HIDE DEF i, rest
  <2>3. /\ rest \in Seq(Turns) /\ Len(rest) = N - 1
        /\ \A n \in 1 .. N - 1 : rest[n] = IF n < i THEN list[n] ELSE list[n + 1]
    <3>1. i \in DOMAIN list
      BY <1>1, <2>1
    <3>2. LET r == Projection!RemoveAt(list, i)
          IN  /\ r \in Seq(Turns) /\ Len(r) = Len(list) - 1
              /\ \A n \in 1 .. Len(list) - 1 : r[n] = IF n < i THEN list[n] ELSE list[n + 1]
      BY <3>1, RemovedIs
    <3> QED
      BY <2>2, <3>2
  <2>4. DOMAIN rest = 1 .. N - 1 /\ Len(rest) <= N
    BY <1>1, <2>3
  <2>5. ASSUME NEW m \in 1 .. N - 1, NEW n \in 1 .. N - 1, rest[m] = rest[n]
        PROVE  m = n
    <3> DEFINE at1 == IF m < i THEN m ELSE m + 1
               at2 == IF n < i THEN n ELSE n + 1
    <3>1. at1 \in 1 .. N /\ at2 \in 1 .. N /\ list[at1] = list[at2]
      BY <1>1, <2>1, <2>3, <2>5
    <3>2. at1 = at2
      BY <1>1, <3>1
    <3> QED
      BY <1>1, <2>1, <3>2
  <2>6. ASSUME NEW n \in 1 .. N - 1
        PROVE  rest[n] # t /\ \E m \in 1 .. N : list[m] = rest[n]
    <3> DEFINE at1 == IF n < i THEN n ELSE n + 1
    <3>1. at1 \in 1 .. N /\ at1 # i /\ list[at1] = rest[n]
      BY <1>1, <2>1, <2>3
    <3> QED
      BY <1>1, <2>1, <3>1
  <2>7. ASSUME NEW m \in 1 .. N, list[m] # t
        PROVE  \E n \in 1 .. N - 1 : rest[n] = list[m]
    <3>1. m # i
      BY <2>1, <2>7
    <3>2. CASE m < i
      <4>1. m \in 1 .. N - 1
        BY <1>1, <2>1, <3>2
      <4> QED
        BY <2>3, <3>2, <4>1
    <3>3. CASE ~(m < i)
      <4>1. m - 1 \in 1 .. N - 1 /\ ~(m - 1 < i) /\ m - 1 + 1 = m
        BY <1>1, <2>1, <3>1, <3>3
      <4> QED
        BY <2>3, <4>1
    <3> QED
      BY <3>2, <3>3
  <2>8. ASSUME NEW u
        PROVE  (\E n \in DOMAIN rest : rest[n] = u) <=> u # t /\ \E n \in DOMAIN list : list[n] = u
    BY <1>1, <2>4, <2>6, <2>7
  <2>9. \A m, n \in DOMAIN rest : rest[m] = rest[n] => m = n
    BY <2>4, <2>5
  <2> QED
    BY <2>3, <2>4, <2>8, <2>9 DEF rest
<1> QED
    BY <1>2, <1>3

LEMMA CompleteKeeps ==
    ASSUME ProjectionInv, NEW t \in Turns, Projection!Complete(t)
    PROVE  ProjectionInv'
<1> DEFINE message == Projection!Message(t)
           whole == Projection!Answer(heard[t])
<1>1. ProjTypes /\ RetainedInv /\ \A u \in Turns : AllOf(u)
    BY DEF ProjectionInv
<1>2. /\ spokenSoFar' \in [Turns -> Nat] /\ billed' \in [Turns -> Nat] /\ repeats' \in Nat
      /\ \A u \in Turns \ {t} : spokenSoFar'[u] = spokenSoFar[u] /\ billed'[u] = billed[u]
      /\ spokenSoFar'[t] = Len(spoken[t]) + 1 /\ spokenSoFar'[t] > Len(spoken[t])
      /\ repeats' >= repeats /\ shown[t] # "none" /\ record[t] # "completed"
      /\ spokenSoFar[t] > Len(spoken[t]) => repeats < MaxRepeats
    BY <1>1, TerminalIs DEF Projection!Complete
<1>3. /\ record' = [record EXCEPT ![t] = "completed"]
      /\ saved' = [saved EXCEPT ![t] = IF message = <<>> THEN @ ELSE message]
      /\ view' = [view EXCEPT ![t] = IF turns[t].snapshot = Projection!NoMessage THEN @ ELSE turns[t].snapshot]
      /\ turns' = [turns EXCEPT ![t] = Projection!Absent]
      /\ failed' = Projection!Without(failed, t)
      /\ Projection!Leave(t, "ended")
      /\ UNCHANGED <<spoken, usage, heard, captured>>
    BY DEF Projection!Complete
<1> HIDE DEF message
<1>4. t # 0 /\ 0 \notin Turns
    BY TurnsAreNumbered
<1>5. IF current = t THEN current' = 0 /\ shown'[t] = "ended" /\ shown[t] = "running"
      ELSE UNCHANGED <<current, shown>>
    BY <1>1, <1>3 DEF Projection!Leave, ProjTypes, AllOf, TurnInv
<1>6. /\ record'[t] = "completed" /\ saved'[t] = (IF message = <<>> THEN saved[t] ELSE message)
      /\ view'[t] = (IF turns[t].snapshot = Projection!NoMessage THEN view[t] ELSE turns[t].snapshot)
      /\ turns'[t] = Projection!Absent
    BY <1>1, <1>3 DEF ProjTypes
<1>7. \A u \in Turns \ {t} : /\ turns'[u] = turns[u] /\ record'[u] = record[u] /\ saved'[u] = saved[u]
                             /\ view'[u] = view[u] /\ shown'[u] = shown[u]
    BY <1>1, <1>3 DEF ProjTypes, Projection!Leave
<1>8. /\ failed' \in Seq(Turns) /\ Len(failed') <= Len(failed)
      /\ \A m, n \in DOMAIN failed' : failed'[m] = failed'[n] => m = n
      /\ \A u \in Turns : IsRetained(u)' <=> u # t /\ IsRetained(u)
  <2>1. failed \in Seq(Turns) /\ \A m, n \in DOMAIN failed : failed[m] = failed[n] => m = n
    BY <1>1 DEF RetainedInv
  <2> DEFINE rest == Projection!Without(failed, t)
  <2>2. /\ rest \in Seq(Turns) /\ Len(rest) <= Len(failed)
        /\ \A m, n \in DOMAIN rest : rest[m] = rest[n] => m = n
        /\ \A u : (\E n \in DOMAIN rest : rest[n] = u) <=> u # t /\ \E n \in DOMAIN failed : failed[n] = u
    BY <2>1, WithoutIs
  <2>3. failed' = rest
    BY <1>3
  <2> HIDE DEF rest
  <2> QED
    BY <2>2, <2>3 DEF IsRetained
<1>9. ProjTypes'
  <2>1. shown' \in [Turns -> Ways] /\ current' \in Turns \cup {0}
    BY <1>1, <1>3 DEF ProjTypes, Projection!Leave, Ways
  <2> QED
    BY <1>1, <1>2, <1>3, <2>1 DEF ProjTypes, Records
<1>10. RetainedInv'
  <2>1. \A u \in Turns \ {t} : Projection!Tracked(u)' <=> Projection!Tracked(u)
    BY <1>7 DEF Projection!Tracked
  <2>2. Len(failed') <= MaxRetained
    BY <1>1, <1>8, TurnsAreNumbered DEF RetainedInv
  <2> QED
    BY <1>1, <1>7, <1>8, <2>1, <2>2 DEF RetainedInv
<1>11. \A v \in Turns : shown[v] = "failed" => shown'[v] = "failed"
    BY <1>5, <1>7
<1>12. ASSUME NEW u \in Turns, u # t
       PROVE  AllOf(u)'
  <2>1. current = u <=> current' = u
    BY <1>4, <1>5, <1>12
  <2>2. repeats \in Nat
    BY <1>1 DEF ProjTypes
  <2> QED
    BY <1>1, <1>2, <1>3, <1>7, <1>8, <1>11, <1>12, <2>1, <2>2, SameKeeps
<1>13. ~Projection!Tracked(t)'
    BY <1>6 DEF Projection!Tracked
\* Either all that was recorded is saved, or the turn was given up before.
<1>14. Projection!Tracked(t) => /\ message = whole /\ whole # Projection!NoMessage /\ IsPrefixAnswer(whole, heard[t])
                                /\ Projection!Blocks(turns[t]) = whole
    BY <1>1, TrackedIs DEF message
<1>15. ~Projection!Tracked(t) => message = <<>>
    BY DEF Projection!Message, message
<1>16. captured[t] = Projection!NoMessage => saved[t] = Projection!NoMessage
    BY <1>1, <1>2 DEF AllOf, TurnInv
<1>17. ~(spokenSoFar[t] > Len(spoken[t]) /\ repeats >= MaxRepeats)
  <2>1. repeats \in Nat /\ MaxRepeats \in Nat
    BY <1>1, TurnsAreNumbered DEF ProjTypes
  <2> QED
    BY <1>2, <2>1
<1>18. ~Projection!Tracked(t) /\ captured[t] = Projection!NoMessage /\ shown[t] # "lost" => Crowded(t)
    BY <1>1, <1>2, <1>17 DEF AllOf, EndInv
<1>19. Crowded(t) => Crowded(t)'
    BY <1>11, CrowdedStays
<1> HIDE DEF whole
<1>20. AllOf(t)'
  <2>1. HeardInv(t)'
    BY <1>1, <1>2, <1>3, HeardStays
  <2>2. TurnInv(t)'
    <3>1. saved'[t] # Projection!NoMessage => IsPrefixAnswer(saved'[t], heard[t])
      BY <1>1, <1>6, <1>14, <1>15 DEF AllOf, TurnInv
    <3>2. current' = t <=> shown'[t] = "running"
      BY <1>1, <1>4, <1>5 DEF AllOf, TurnInv
    <3>3. current' = t => Projection!Tracked(t)'
      BY <1>1, <1>4, <1>5, <1>14, <1>15 DEF AllOf, TurnInv
    <3>4. shown'[t] # "none"
      BY <1>2, <1>5
    <3> QED
      BY <1>1, <1>2, <1>3, <1>6, <1>13, <3>1, <3>2, <3>3, <3>4 DEF AllOf, TurnInv
  <2>3. UsageInv(t)'
    BY <1>1, <1>3, <1>13 DEF AllOf, UsageInv
  <2>4. EndInv(t)'
    <3>1. ASSUME captured[t] = Projection!NoMessage, shown'[t] # "lost"
          PROVE  whole = <<>> \/ saved'[t] = whole \/ (Crowded(t)' /\ saved'[t] = Projection!NoMessage)
      <4>1. CASE Projection!Tracked(t)
        BY <1>6, <1>14, <4>1
      <4>2. CASE ~Projection!Tracked(t)
        <5>1. current # t
          BY <1>1, <4>2 DEF AllOf, TurnInv
        <5>2. shown[t] # "lost"
          BY <1>5, <3>1, <5>1
        <5> QED
          BY <1>6, <1>15, <1>16, <1>18, <1>19, <3>1, <4>2, <5>2
      <4> QED
        BY <4>1, <4>2
    <3>2. ASSUME captured[t] = Projection!NoMessage, shown'[t] = "ended", Projection!EndsInText(heard[t])
          PROVE  view'[t] = IF saved'[t] = Projection!NoMessage THEN <<>> ELSE saved'[t]
      <4>1. current = t
        <5> SUFFICES ASSUME current # t PROVE FALSE
          OBVIOUS
        <5>1. shown[t] = "ended"
          BY <1>5, <3>2
        <5>2. ~Projection!Tracked(t)
          BY <1>1, <5>1 DEF AllOf, TurnInv, RetainedInv
        <5> QED
          BY <1>18, <3>2, <5>1, <5>2 DEF Crowded
      <4>2. Projection!Tracked(t) /\ Matches(turns[t], heard[t])
        BY <1>1, <4>1 DEF AllOf, TurnInv
      <4>3. turns[t].snapshot = whole
        BY <1>14, <3>2, <4>2 DEF Matches
      <4> QED
        BY <1>6, <1>14, <1>16, <3>2, <4>2, <4>3
    <3> QED
      BY <1>3, <1>6, <1>13, <3>1, <3>2 DEF EndInv, whole
  <2> QED
    BY <2>1, <2>2, <2>3, <2>4 DEF AllOf
<1> QED
    BY <1>9, <1>10, <1>12, <1>20 DEF ProjectionInv

\* A turn more, at the end; and without the first.
LEMMA PushedIs ==
    ASSUME NEW list \in Seq(Turns), NEW t \in Turns, \A n \in DOMAIN list : list[n] # t,
           \A m, n \in DOMAIN list : list[m] = list[n] => m = n
    PROVE  LET longer == Append(list, t)
           IN  /\ longer \in Seq(Turns) /\ Len(longer) = Len(list) + 1
               /\ \A m, n \in DOMAIN longer : longer[m] = longer[n] => m = n
               /\ \A u : (\E n \in DOMAIN longer : longer[n] = u) <=> u = t \/ \E n \in DOMAIN list : list[n] = u
<1> DEFINE longer == Append(list, t)
           N == Len(list)
<1>1. /\ longer \in Seq(Turns) /\ Len(longer) = N + 1 /\ DOMAIN longer = 1 .. N + 1 /\ DOMAIN list = 1 .. N
      /\ N \in Nat /\ longer[N + 1] = t /\ \A n \in 1 .. N : longer[n] = list[n]
    OBVIOUS
<1> HIDE DEF longer
<1>2. ASSUME NEW m \in 1 .. N + 1, NEW n \in 1 .. N + 1, longer[m] = longer[n]
      PROVE  m = n
  <2>1. m \in 1 .. N \/ m = N + 1
    BY <1>1
  <2>2. n \in 1 .. N \/ n = N + 1
    BY <1>1
  <2> QED
    BY <1>1, <1>2, <2>1, <2>2
<1>3. ASSUME NEW u
      PROVE  (\E n \in 1 .. N + 1 : longer[n] = u) <=> u = t \/ \E n \in 1 .. N : list[n] = u
  <2>1. \A n \in 1 .. N + 1 : n \in 1 .. N \/ n = N + 1
    BY <1>1
  <2>2. N + 1 \in 1 .. N + 1 /\ \A n \in 1 .. N : n \in 1 .. N + 1
    BY <1>1
  <2> QED
    BY <1>1, <2>1, <2>2
<1> QED
    BY <1>1, <1>2, <1>3 DEF longer

LEMMA RestIs ==
    ASSUME NEW list \in Seq(Turns), Len(list) # 0, \A m, n \in DOMAIN list : list[m] = list[n] => m = n
    PROVE  LET rest == Tail(list)
           IN  /\ rest \in Seq(Turns) /\ Len(rest) = Len(list) - 1
               /\ \A m, n \in DOMAIN rest : rest[m] = rest[n] => m = n
               /\ \A u : (\E n \in DOMAIN rest : rest[n] = u) <=> u # Head(list) /\ \E n \in DOMAIN list : list[n] = u
               /\ Head(list) = list[1] /\ 1 \in DOMAIN list
<1> DEFINE rest == Tail(list)
           N == Len(list)
<1>1. /\ rest \in Seq(Turns) /\ Len(rest) = N - 1 /\ DOMAIN rest = 1 .. N - 1 /\ DOMAIN list = 1 .. N
      /\ N \in Nat \ {0} /\ Head(list) = list[1] /\ \A n \in 1 .. N - 1 : rest[n] = list[n + 1]
    OBVIOUS
<1> HIDE DEF rest
<1>2. ASSUME NEW m \in 1 .. N - 1, NEW n \in 1 .. N - 1, rest[m] = rest[n]
      PROVE  m = n
  <2>1. m + 1 \in DOMAIN list /\ n + 1 \in DOMAIN list /\ list[m + 1] = list[n + 1]
    BY <1>1, <1>2
  <2>2. m + 1 = n + 1
    BY <2>1
  <2> QED
    BY <2>2
<1>3. 1 \in 1 .. N
    BY <1>1
<1>4. ASSUME NEW n \in 1 .. N - 1
      PROVE  rest[n] # Head(list) /\ \E m \in 1 .. N : list[m] = rest[n]
  <2>1. n + 1 \in 1 .. N /\ n + 1 # 1 /\ rest[n] = list[n + 1]
    BY <1>1
  <2> QED
    BY <1>1, <1>3, <2>1
<1>5. ASSUME NEW m \in 1 .. N, list[m] # Head(list)
      PROVE  \E n \in 1 .. N - 1 : rest[n] = list[m]
  <2>1. m # 1
    BY <1>1, <1>5
  <2>2. m - 1 \in 1 .. N - 1 /\ m - 1 + 1 = m
    BY <1>1, <2>1
  <2> QED
    BY <1>1, <2>2
<1>6. ASSUME NEW u
      PROVE  (\E n \in DOMAIN rest : rest[n] = u) <=> u # Head(list) /\ \E n \in DOMAIN list : list[n] = u
  <2>1. ASSUME NEW n \in DOMAIN rest, rest[n] = u
        PROVE  u # Head(list) /\ \E m \in DOMAIN list : list[m] = u
    BY <1>1, <1>4, <2>1
  <2>2. ASSUME u # Head(list), NEW m \in DOMAIN list, list[m] = u
        PROVE  \E n \in DOMAIN rest : rest[n] = u
    BY <1>1, <1>5, <2>2
  <2> QED
    BY <2>1, <2>2
<1>7. \A m, n \in DOMAIN rest : rest[m] = rest[n] => m = n
    BY <1>1, <1>2
<1> QED
    BY <1>1, <1>3, <1>6, <1>7 DEF rest

\* Which turns are kept for another terminal, and which one is given up for them.
LEMMA RetainedMoves ==
    ASSUME ProjectionInv, NEW t \in Turns, Projection!CompleteUnsaved(t)
    PROVE  /\ failed' \in Seq(Turns) /\ Len(failed') <= MaxRetained
           /\ \A m, n \in DOMAIN failed' : failed'[m] = failed'[n] => m = n
           /\ \/ /\ ~Projection!Tracked(t) \/ IsRetained(t)
                 /\ \A u \in Turns : turns'[u] = turns[u] /\ (IsRetained(u)' <=> IsRetained(u))
              \/ /\ Projection!Tracked(t) /\ ~IsRetained(t)
                 /\ \A u \in Turns : turns'[u] = turns[u] /\ (IsRetained(u)' <=> IsRetained(u) \/ u = t)
              \/ /\ Projection!Tracked(t) /\ ~IsRetained(t) /\ Len(failed') = MaxRetained
                 /\ \E h \in Turns :
                      /\ IsRetained(h) /\ turns'[h] = Projection!Absent
                      /\ \A u \in Turns \ {h} : turns'[u] = turns[u]
                      /\ \A u \in Turns : IsRetained(u)' <=> u # h /\ (IsRetained(u) \/ u = t)
<1> DEFINE list == IF ~Projection!Tracked(t) \/ t \in Projection!Range(failed) THEN failed ELSE Append(failed, t)
           gone == Projection!Evicted(list)
<1>1. ProjTypes /\ RetainedInv /\ \A u \in Turns : AllOf(u)
    BY DEF ProjectionInv
<1>2. /\ turns' = [u \in Turns |-> IF u \in gone THEN Projection!Absent ELSE turns[u]]
      /\ failed' = IF Len(list) > MaxRetained THEN Tail(list) ELSE list
    BY DEF Projection!CompleteUnsaved
<1>3. gone = IF Len(list) > MaxRetained THEN {u \in {Head(list)} : u # current} ELSE {}
    BY DEF Projection!Evicted
<1>4. t \in Projection!Range(failed) <=> IsRetained(t)
    BY DEF Projection!Range, IsRetained
<1>5. list = IF ~Projection!Tracked(t) \/ IsRetained(t) THEN failed ELSE Append(failed, t)
    BY <1>4
<1> HIDE DEF list, gone
<1>6. /\ failed \in Seq(Turns) /\ Len(failed) <= MaxRetained /\ Len(failed) \in Nat /\ MaxRetained \in Nat \ {0}
      /\ \A m, n \in DOMAIN failed : failed[m] = failed[n] => m = n
    BY <1>1, TurnsAreNumbered DEF RetainedInv
<1>7. CASE ~Projection!Tracked(t) \/ IsRetained(t)
  <2>1. list = failed /\ gone = {} /\ failed' = failed
    BY <1>2, <1>3, <1>5, <1>6, <1>7
  <2>2. \A u \in Turns : turns'[u] = turns[u] /\ (IsRetained(u)' <=> IsRetained(u))
    BY <1>2, <2>1 DEF IsRetained
  <2> QED
    BY <1>6, <1>7, <2>1, <2>2
<1>8. CASE Projection!Tracked(t) /\ ~IsRetained(t)
  <2>1. list = Append(failed, t)
    BY <1>5, <1>8
  <2>2. \A n \in DOMAIN failed : failed[n] # t
    BY <1>8 DEF IsRetained
  <2>3. /\ list \in Seq(Turns) /\ Len(list) = Len(failed) + 1
        /\ \A m, n \in DOMAIN list : list[m] = list[n] => m = n
        /\ \A u : (\E n \in DOMAIN list : list[n] = u) <=> u = t \/ \E n \in DOMAIN failed : failed[n] = u
    <3>1. LET longer == Append(failed, t)
          IN  /\ longer \in Seq(Turns) /\ Len(longer) = Len(failed) + 1
              /\ \A m, n \in DOMAIN longer : longer[m] = longer[n] => m = n
              /\ \A u : (\E n \in DOMAIN longer : longer[n] = u) <=> u = t \/ \E n \in DOMAIN failed : failed[n] = u
      BY <1>6, <2>2, PushedIs
    <3> QED
      BY <2>1, <3>1
  <2>4. CASE ~(Len(list) > MaxRetained)
    <3>1. failed' = list /\ gone = {} /\ Len(list) <= MaxRetained
      BY <1>2, <1>3, <1>6, <2>3, <2>4
    <3>2. \A u \in Turns : turns'[u] = turns[u] /\ (IsRetained(u)' <=> IsRetained(u) \/ u = t)
      BY <1>2, <2>3, <3>1 DEF IsRetained
    <3> QED
      BY <1>8, <2>3, <3>1, <3>2
  <2>5. CASE Len(list) > MaxRetained
    <3> DEFINE h == Head(list)
    <3>1. failed' = Tail(list) /\ Len(list) = MaxRetained + 1 /\ Len(failed) = MaxRetained
      BY <1>2, <1>6, <2>3, <2>5
    <3>2. LET rest == Tail(list)
          IN  /\ rest \in Seq(Turns) /\ Len(rest) = Len(list) - 1
              /\ \A m, n \in DOMAIN rest : rest[m] = rest[n] => m = n
              /\ \A u : (\E n \in DOMAIN rest : rest[n] = u) <=> u # Head(list) /\ \E n \in DOMAIN list : list[n] = u
              /\ Head(list) = list[1] /\ 1 \in DOMAIN list
      <4>1. Len(list) # 0
        BY <1>6, <2>3
      <4> QED
        BY <2>3, <4>1, RestIs
    <3>3. h = failed[1] /\ 1 \in DOMAIN failed /\ h \in Turns
      <4>1. 1 \in DOMAIN failed /\ Append(failed, t)[1] = failed[1]
        BY <1>6, <3>1
      <4>2. failed[1] \in Turns
        BY <1>6, <4>1
      <4> QED
        BY <2>1, <3>2, <4>1, <4>2
    <3> HIDE DEF h
    <3>4. IsRetained(h)
      BY <3>3 DEF IsRetained
    <3>5. h # current
      BY <1>1, <3>3, <3>4 DEF AllOf, TurnInv, RetainedInv
    <3>6. gone = {h}
      BY <1>3, <2>5, <3>5 DEF h
    <3>7. turns'[h] = Projection!Absent /\ \A u \in Turns \ {h} : turns'[u] = turns[u]
      BY <1>2, <3>3, <3>6
    <3>8. \A u \in Turns : IsRetained(u)' <=> u # h /\ (IsRetained(u) \/ u = t)
      BY <2>3, <3>1, <3>2 DEF IsRetained, h
    <3>9. failed' \in Seq(Turns) /\ Len(failed') = MaxRetained
      BY <1>6, <3>1, <3>2
    <3>10. \A m, n \in DOMAIN failed' : failed'[m] = failed'[n] => m = n
      BY <3>1, <3>2
    <3> QED
      BY <1>6, <1>8, <3>3, <3>4, <3>7, <3>8, <3>9, <3>10
  <2> QED
    BY <2>4, <2>5
<1> QED
    BY <1>7, <1>8

LEMMA CompleteUnsavedKeeps ==
    ASSUME ProjectionInv, NEW t \in Turns, Projection!CompleteUnsaved(t)
    PROVE  ProjectionInv'
<1>1. ProjTypes /\ RetainedInv /\ \A u \in Turns : AllOf(u)
    BY DEF ProjectionInv
<1>2. /\ spokenSoFar' \in [Turns -> Nat] /\ billed' \in [Turns -> Nat] /\ repeats' \in Nat
      /\ \A u \in Turns \ {t} : spokenSoFar'[u] = spokenSoFar[u] /\ billed'[u] = billed[u]
      /\ spokenSoFar'[t] = Len(spoken[t]) + 1 /\ spokenSoFar'[t] > Len(spoken[t])
      /\ repeats' >= repeats /\ shown[t] # "none" /\ record[t] # "completed"
      /\ spokenSoFar[t] > Len(spoken[t]) => repeats < MaxRepeats
    BY <1>1, TerminalIs DEF Projection!CompleteUnsaved
<1>3. /\ record' = [record EXCEPT ![t] = IF @ = "none" THEN "failed" ELSE @]
      /\ DOMAIN turns' = Turns
      /\ Projection!Leave(t, "failed")
      /\ UNCHANGED <<spoken, usage, heard, saved, captured, view>>
    BY DEF Projection!CompleteUnsaved
<1>4. t # 0 /\ 0 \notin Turns
    BY TurnsAreNumbered
<1>5. IF current = t THEN current' = 0 /\ shown'[t] = "failed" /\ shown[t] = "running"
      ELSE UNCHANGED <<current, shown>>
    BY <1>1, <1>3 DEF Projection!Leave, ProjTypes, AllOf, TurnInv
<1>6. record'[t] # "completed" /\ \A u \in Turns \ {t} : record'[u] = record[u] /\ shown'[u] = shown[u]
    BY <1>1, <1>2, <1>3 DEF ProjTypes, Projection!Leave
<1>7. ProjTypes'
  <2>1. shown' \in [Turns -> Ways] /\ current' \in Turns \cup {0}
    BY <1>1, <1>3 DEF ProjTypes, Projection!Leave, Ways
  <2>2. record' \in [Turns -> Records]
    BY <1>1, <1>3 DEF ProjTypes, Records
  <2> QED
    BY <1>1, <1>2, <1>3, <2>1, <2>2 DEF ProjTypes
<1>8. \A v \in Turns : shown[v] = "failed" => shown'[v] = "failed"
    BY <1>5, <1>6
<1>9. repeats \in Nat
    BY <1>1 DEF ProjTypes
<1>10. ~(spokenSoFar[t] > Len(spoken[t]) /\ repeats >= MaxRepeats)
    BY <1>2, <1>9, TurnsAreNumbered
<1>11. HeardInv(t)'
    BY <1>1, <1>2, <1>3, HeardStays
<1>12. Len(spoken[t]) \in Nat /\ spokenSoFar'[t] \in Nat
    BY <1>1, <1>2, SpokenIs
<1>13. /\ failed' \in Seq(Turns) /\ Len(failed') <= MaxRetained
       /\ \A m, n \in DOMAIN failed' : failed'[m] = failed'[n] => m = n
    BY RetainedMoves
<1>14. Crowded(t) => Crowded(t)'
    BY <1>8, CrowdedStays
\* A turn that keeps its projection, or that was given up before.
<1>15. CASE /\ ~Projection!Tracked(t) \/ IsRetained(t)
            /\ \A u \in Turns : turns'[u] = turns[u] /\ (IsRetained(u)' <=> IsRetained(u))
  <2>1. current # t /\ UNCHANGED <<current, shown>>
    BY <1>1, <1>5, <1>15 DEF AllOf, TurnInv, RetainedInv
  <2>2. \A u \in Turns : Projection!Tracked(u)' <=> Projection!Tracked(u)
    BY <1>15 DEF Projection!Tracked
  <2>3. RetainedInv'
    BY <1>1, <1>6, <1>13, <1>15, <2>1, <2>2 DEF RetainedInv
  <2>4. ASSUME NEW u \in Turns, u # t
        PROVE  AllOf(u)'
    BY <1>1, <1>2, <1>3, <1>6, <1>8, <1>9, <1>15, <2>1, <2>4, SameKeeps
  <2>5. TurnInv(t)'
    BY <1>1, <1>2, <1>3, <1>6, <1>15, <2>1, <2>2 DEF AllOf, TurnInv
  <2>6. UsageInv(t)'
    BY <1>1, <1>2, <1>3, <1>12, <2>2 DEF AllOf, UsageInv
  <2>7. EndInv(t)'
    BY <1>1, <1>2, <1>3, <1>6, <1>10, <1>14, <2>1, <2>2 DEF AllOf, EndInv
  <2> QED
    BY <1>7, <1>11, <2>3, <2>4, <2>5, <2>6, <2>7 DEF ProjectionInv, AllOf
\* A turn that is kept from now on.
<1>16. ASSUME Projection!Tracked(t), ~IsRetained(t), turns'[t] = turns[t], IsRetained(t)'
       PROVE  AllOf(t)' /\ current = t /\ current' = 0 /\ shown'[t] = "failed" /\ Projection!Tracked(t)'
  <2>1. current = t /\ current' = 0 /\ shown'[t] = "failed"
    BY <1>1, <1>5, <1>16 DEF AllOf, TurnInv
  <2>2. Projection!Tracked(t)'
    BY <1>16 DEF Projection!Tracked
  <2>3. TurnInv(t)'
    BY <1>1, <1>3, <1>4, <1>6, <1>16, <2>1, <2>2 DEF AllOf, TurnInv
  <2>4. UsageInv(t)'
    BY <1>1, <1>2, <1>3, <1>12, <1>16, <2>2 DEF AllOf, UsageInv
  <2>5. EndInv(t)'
    BY <1>6, <2>2 DEF EndInv
  <2> QED
    BY <1>11, <2>1, <2>2, <2>3, <2>4, <2>5 DEF AllOf
<1>17. CASE /\ Projection!Tracked(t) /\ ~IsRetained(t)
            /\ \A u \in Turns : turns'[u] = turns[u] /\ (IsRetained(u)' <=> IsRetained(u) \/ u = t)
  <2>1. AllOf(t)' /\ current = t /\ current' = 0 /\ shown'[t] = "failed" /\ Projection!Tracked(t)'
    BY <1>16, <1>17
  <2>2. \A u \in Turns : Projection!Tracked(u)' <=> Projection!Tracked(u)
    BY <1>17 DEF Projection!Tracked
  <2>3. RetainedInv'
    BY <1>1, <1>6, <1>13, <1>17, <2>1, <2>2 DEF RetainedInv
  <2>4. ASSUME NEW u \in Turns, u # t
        PROVE  AllOf(u)'
    <3>1. current = u <=> current' = u
      BY <1>4, <2>1, <2>4
    <3> QED
      BY <1>1, <1>2, <1>3, <1>6, <1>8, <1>9, <1>17, <2>4, <3>1, SameKeeps
  <2> QED
    BY <1>7, <2>1, <2>3, <2>4 DEF ProjectionInv
\* One is given up for it: the limit is reached by others that failed.
<1>18. CASE /\ Projection!Tracked(t) /\ ~IsRetained(t) /\ Len(failed') = MaxRetained
            /\ \E h \in Turns :
                 /\ IsRetained(h) /\ turns'[h] = Projection!Absent
                 /\ \A u \in Turns \ {h} : turns'[u] = turns[u]
                 /\ \A u \in Turns : IsRetained(u)' <=> u # h /\ (IsRetained(u) \/ u = t)
  <2>1. PICK h \in Turns : /\ IsRetained(h) /\ turns'[h] = Projection!Absent
                           /\ \A u \in Turns \ {h} : turns'[u] = turns[u]
                           /\ \A u \in Turns : IsRetained(u)' <=> u # h /\ (IsRetained(u) \/ u = t)
    BY <1>18
  <2>2. h # t /\ turns'[t] = turns[t] /\ IsRetained(t)'
    BY <1>18, <2>1
  <2>3. AllOf(t)' /\ current = t /\ current' = 0 /\ shown'[t] = "failed" /\ Projection!Tracked(t)'
    BY <1>16, <1>18, <2>2
  <2>4. \A u \in Turns \ {h} : Projection!Tracked(u)' <=> Projection!Tracked(u)
    BY <2>1 DEF Projection!Tracked
  <2>5. RetainedInv'
    BY <1>1, <1>6, <1>13, <2>1, <2>3, <2>4 DEF RetainedInv
  <2>6. ASSUME NEW u \in Turns, u # t, u # h
        PROVE  AllOf(u)'
    <3>1. current = u <=> current' = u
      BY <1>4, <2>3, <2>6
    <3>2. turns'[u] = turns[u] /\ (IsRetained(u) => IsRetained(u)')
      BY <2>1, <2>6
    <3> QED
      BY <1>1, <1>2, <1>3, <1>6, <1>8, <1>9, <2>6, <3>1, <3>2, SameKeeps
  <2>7. AllOf(h)'
    <3>1. shown[h] = "failed" /\ record[h] # "completed" /\ shown'[h] = "failed" /\ record'[h] = record[h]
      BY <1>1, <1>6, <2>1, <2>2 DEF RetainedInv
    <3>2. spokenSoFar'[h] = spokenSoFar[h] /\ ~Projection!Tracked(h)' /\ current' # h
      BY <1>2, <1>4, <2>1, <2>2, <2>3 DEF Projection!Tracked
    <3>3. HeardInv(h)'
      BY <1>1, <1>3, <3>2 DEF AllOf, HeardInv
    <3>4. TurnInv(h)'
      BY <1>1, <1>3, <3>1, <3>2 DEF AllOf, TurnInv
    <3>5. UsageInv(h)'
      BY <1>1, <1>3, <3>2 DEF AllOf, UsageInv
    <3>6. Crowded(h)'
      <4> DEFINE others == {u \in Turns \ {h} : shown'[u] = "failed"}
                 K == 1 .. Len(failed')
      <4>1. ASSUME NEW u \in Turns, NEW n \in DOMAIN failed', failed'[n] = u
            PROVE  u \in others
        <5>1. IsRetained(u)'
          BY <4>1 DEF IsRetained
        <5> QED
          BY <2>1, <2>5, <5>1 DEF RetainedInv
      <4>2. \A n \in DOMAIN failed' : failed'[n] \in others
        <5>1. \A n \in DOMAIN failed' : failed'[n] \in Turns
          BY <1>13
        <5> QED
          BY <4>1, <5>1
      <4>3. IsFiniteSet(others)
        BY TurnsAreNumbered, FS_Subset
      <4>4. DOMAIN failed' = K /\ Len(failed') \in Nat
        BY <1>13
      <4>5. IsFiniteSet(K) /\ Cardinality(K) = Len(failed')
        <5>1. 1 \in Int /\ Len(failed') \in Int
          BY <4>4
        <5>2. Cardinality(K) = IF 1 > Len(failed') THEN 0 ELSE Len(failed') - 1 + 1
          BY <5>1, FS_Interval
        <5>3. IsFiniteSet(K)
          BY <5>1, FS_Interval
        <5> QED
          BY <4>4, <5>2, <5>3
      <4> HIDE DEF others, K
      <4>6. failed' \in [K -> others]
        BY <1>13, <4>2, <4>4
      <4>7. failed' \in Injection(K, others)
        BY <1>13, <4>4, <4>6 DEF Injection, IsInjective
      <4>8. Cardinality(K) <= Cardinality(others) /\ Cardinality(others) \in Nat
        BY <4>3, <4>7, FS_Injection, FS_CardinalityType
      <4>9. Cardinality(others) >= MaxRetained
        BY <1>18, <4>4, <4>5, <4>8
      <4> QED
        BY <3>1, <4>9 DEF Crowded, others
    <3>7. EndInv(h)'
      BY <3>1, <3>6 DEF EndInv
    <3> QED
      BY <3>3, <3>4, <3>5, <3>7 DEF AllOf
  <2> QED
    BY <1>7, <2>3, <2>5, <2>6, <2>7 DEF ProjectionInv
<1> QED
    BY <1>15, <1>17, <1>18, RetainedMoves

LEMMA ProcessLostKeeps ==
    ASSUME ProjectionInv, Projection!ProcessLost
    PROVE  ProjectionInv'
<1> USE DEF Projection!ProcessLost, Projection!Begun
<1>1. ProjTypes /\ RetainedInv /\ \A u \in Turns : AllOf(u)
    BY DEF ProjectionInv
<1>2. MaxRepeats \in Nat /\ MaxRetained \in Nat /\ 0 \notin Turns
    BY TurnsAreNumbered
<1>3. \A u \in Turns : Len(spoken[u]) \in Nat /\ Len(spoken[u]) + 1 \in Nat /\ Len(spoken[u]) + 1 > Len(spoken[u])
  <2>1. \A u \in Turns : Len(spoken[u]) \in Nat
    BY <1>1, SpokenIs
  <2> QED
    BY <2>1
<1>4. ProjTypes'
  <2>1. spokenSoFar' \in [Turns -> Nat]
    BY <1>1, <1>3 DEF ProjTypes
  <2>2. shown' \in [Turns -> Ways]
    BY <1>1 DEF ProjTypes, Ways
  <2> QED
    BY <1>1, <1>2, <2>1, <2>2 DEF ProjTypes
<1>5. \A u \in Turns : ~Projection!Tracked(u)' /\ ~IsRetained(u)'
    BY DEF Projection!Tracked, IsRetained
<1>6. RetainedInv'
  <2>1. <<>> \in Seq(Turns) /\ Len(<<>>) = 0 /\ DOMAIN <<>> = {}
    OBVIOUS
  <2> QED
    BY <1>2, <1>5, <2>1 DEF RetainedInv
<1>7. ASSUME NEW u \in Turns
      PROVE  AllOf(u)'
  <2>1. current = u <=> shown[u] = "running"
    BY <1>1 DEF AllOf, TurnInv
  <2>2. shown'[u] = IF shown[u] = "running" THEN "lost" ELSE shown[u]
    BY <2>1
  <2>3. spokenSoFar'[u] = IF shown[u] # "none" THEN Len(spoken[u]) + 1 ELSE spokenSoFar[u]
    OBVIOUS
  <2>4. \A v \in Turns : shown[v] = "failed" => shown'[v] = "failed"
    <3>1. \A v \in Turns : shown[v] = "failed" => current # v
      BY <1>1 DEF AllOf, TurnInv
    <3> QED
      BY <3>1
  <2>5. HeardInv(u)'
    <3>1. CASE shown[u] # "none"
      BY <1>1, <2>3, <3>1, HeardStays
    <3>2. CASE shown[u] = "none"
      BY <1>1, <2>3, <3>2 DEF AllOf, HeardInv
    <3> QED
      BY <3>1, <3>2
  <2>6. TurnInv(u)'
    <3>1. shown'[u] = "none" => Waiting(u)'
      BY <1>1, <1>5, <2>2, <2>3 DEF AllOf, TurnInv, Waiting
    <3>2. record[u] = "completed" => spokenSoFar'[u] > Len(spoken[u])
      BY <1>1, <1>3, <2>3 DEF AllOf, TurnInv, Waiting
    <3> QED
      BY <1>1, <1>2, <1>5, <2>2, <3>1, <3>2 DEF AllOf, TurnInv
  <2>7. UsageInv(u)'
    BY <1>1, <1>5 DEF AllOf, UsageInv
  <2>8. Crowded(u) => Crowded(u)'
    BY <2>4, CrowdedStays
  <2>9. shown'[u] # "none" => spokenSoFar'[u] > Len(spoken[u])
    BY <1>3, <2>2, <2>3
  <2>10. repeats' >= MaxRepeats
    BY <1>2
  <2>11. EndInv(u)'
    BY <1>1, <2>2, <2>8, <2>9, <2>10 DEF AllOf, EndInv
  <2> QED
    BY <2>5, <2>6, <2>7, <2>11 DEF AllOf
<1> QED
    BY <1>4, <1>6, <1>7 DEF ProjectionInv

LEMMA ProjectionStarts ==
    ASSUME Projection!Init
    PROVE  ProjectionInv
<1> USE DEF Projection!Init
<1>1. MaxRetained \in Nat /\ 0 \notin Turns
    BY TurnsAreNumbered
<1>2. <<>> \in Seq(Happenings) /\ Folds(<<>>)
    BY NothingMatches
<1>3. ProjTypes
    BY <1>2 DEF ProjTypes, Ways, Records
<1>4. RetainedInv
  <2>1. <<>> \in Seq(Turns) /\ Len(<<>>) = 0 /\ DOMAIN <<>> = {}
    OBVIOUS
  <2> QED
    BY <1>1, <2>1 DEF RetainedInv, IsRetained
<1>5. ASSUME NEW t \in Turns
      PROVE  AllOf(t)
  <2>1. ~Projection!Tracked(t)
    BY DEF Projection!Tracked
  <2>2. HeardInv(t)
    BY <1>2 DEF HeardInv
  <2>3. TurnInv(t)
    BY <1>1, <2>1 DEF TurnInv, Waiting
  <2>4. UsageInv(t)
    <3>1. IsTop(0, <<>>)
      BY DEF IsTop, Counts, Projection!Range
    <3> QED
      BY <2>1, <3>1 DEF UsageInv
  <2>5. EndInv(t)
    BY DEF EndInv
  <2> QED
    BY <2>2, <2>3, <2>4, <2>5 DEF AllOf
<1> QED
    BY <1>3, <1>4, <1>5 DEF ProjectionInv

LEMMA ProjectionStays ==
    ASSUME ProjectionInv, UNCHANGED Projection!vars
    PROVE  ProjectionInv'
<1>1. /\ spoken' = spoken /\ spokenSoFar' = spokenSoFar /\ current' = current /\ repeats' = repeats
      /\ turns' = turns /\ failed' = failed /\ billed' = billed /\ usage' = usage
      /\ heard' = heard /\ record' = record /\ saved' = saved /\ captured' = captured
      /\ view' = view /\ shown' = shown
    BY DEF Projection!vars
<1>2. ProjTypes' /\ RetainedInv'
    BY <1>1 DEF ProjectionInv, ProjTypes, RetainedInv, IsRetained, Projection!Tracked
<1>3. ASSUME NEW t \in Turns
      PROVE  AllOf(t)'
  <2>1. AllOf(t)
    BY DEF ProjectionInv
  <2>2. HeardInv(t)'
    BY <1>1, <2>1 DEF AllOf, HeardInv
  <2>3. TurnInv(t)'
    BY <1>1, <2>1 DEF AllOf, TurnInv, Waiting, IsRetained, Projection!Tracked
  <2>4. UsageInv(t)'
    BY <1>1, <2>1 DEF AllOf, UsageInv, Projection!Tracked
  <2>5. EndInv(t)'
    BY <1>1, <2>1 DEF AllOf, EndInv, Crowded, Projection!Tracked
  <2> QED
    BY <2>2, <2>3, <2>4, <2>5 DEF AllOf
<1> QED
    BY <1>2, <1>3 DEF ProjectionInv

LEMMA ProjectionKeeps ==
    ASSUME ProjectionInv, Projection!Next \/ UNCHANGED Projection!vars
    PROVE  ProjectionInv'
<1>1. ASSUME NEW t \in Turns,
             \/ Projection!StartTurn(t) \/ Projection!Hear(t) \/ Projection!Lose(t) \/ Projection!TerminalAgain(t)
             \/ Projection!Complete(t) \/ Projection!CompleteUnsaved(t) \/ Projection!TerminalDropped(t)
             \/ Projection!WatchdogCopies(t) \/ Projection!WatchdogSaves(t)
      PROVE  ProjectionInv'
    BY <1>1, StartTurnKeeps, HearKeeps, LoseKeeps, TerminalAgainKeeps, CompleteKeeps, CompleteUnsavedKeeps,
       TerminalDroppedKeeps, WatchdogCopiesKeeps, WatchdogSavesKeeps
<1> QED
    BY <1>1, ProcessLostKeeps, ProjectionStays DEF Projection!Next

\* What the invariant says of the answers, the projections that are kept, the usage and the view.
LEMMA ProjectionPromises ==
    ASSUME ProjectionInv
    PROVE  /\ Projection!AnswerIsSaved /\ Projection!FailedIsKept
           /\ Projection!UsageCountsOnce /\ Projection!LiveIsReloaded
<1>1. ProjTypes /\ RetainedInv /\ \A u \in Turns : AllOf(u)
    BY DEF ProjectionInv
<1>2. Projection!AnswerIsSaved
  <2>1. ASSUME NEW t \in Turns
        PROVE  /\ record[t] = "completed" /\ captured[t] = Projection!NoMessage /\ shown[t] # "lost" =>
                    \/ Projection!Answer(heard[t]) = <<>> \/ saved[t] = Projection!Answer(heard[t])
                    \/ Crowded(t) /\ saved[t] = Projection!NoMessage
               /\ saved[t] # Projection!NoMessage => IsPrefixAnswer(saved[t], heard[t])
    BY <1>1 DEF AllOf, TurnInv, EndInv
  <2>2. ASSUME NEW t \in Turns
        PROVE  /\ record[t] = "completed" /\ captured[t] = Projection!NoMessage /\ shown[t] # "lost" =>
                    \/ Projection!Answer(heard[t]) = <<>> \/ saved[t] = Projection!Answer(heard[t])
                    \/ /\ shown[t] = "failed" /\ saved[t] = Projection!NoMessage
                       /\ Cardinality({u \in Turns \ {t} : shown[u] = "failed"}) >= MaxRetained
               /\ saved[t] # Projection!NoMessage =>
                    \E n \in 0 .. Len(heard[t]) : saved[t] = Projection!Answer(SubSeq(heard[t], 1, n))
    BY <2>1 DEF IsPrefixAnswer, Crowded
  <2>3. \A S : Projection!Cardinality(S) = Cardinality(S)
    BY DEF Projection!Cardinality, Cardinality
  <2> QED
    BY <2>2, <2>3, Zenon DEF Projection!AnswerIsSaved
<1>3. Projection!FailedIsKept
  <2>1. ASSUME NEW n \in DOMAIN failed
        PROVE  Projection!Tracked(failed[n]) /\ Projection!Blocks(turns[failed[n]]) = Projection!Answer(heard[failed[n]])
    <3>1. failed[n] \in Turns
      BY <1>1 DEF RetainedInv
    <3>2. IsRetained(failed[n])
      BY DEF IsRetained
    <3> QED
      BY <1>1, <3>1, <3>2, TrackedIs DEF RetainedInv
  <2>2. ASSUME NEW t \in Turns, Projection!Tracked(t)
        PROVE  t = current \/ t \in Projection!Range(failed)
    BY <1>1, <2>2 DEF AllOf, TurnInv, IsRetained, Projection!Range
  <2> QED
    BY <1>1, <2>1, <2>2 DEF Projection!FailedIsKept, RetainedInv
<1>4. Projection!UsageCountsOnce
  <2>1. ASSUME NEW events, NEW n, IsTop(n, events), Counts(events) \subseteq Nat
        PROVE  Projection!Max(Counts(events)) = n
    <3> DEFINE top == Projection!Max(Counts(events))
    <3>1. n \in Counts(events) /\ \A m \in Counts(events) : n >= m
      BY <2>1 DEF IsTop
    <3>2. top \in Counts(events) /\ \A m \in Counts(events) : top >= m
      BY <3>1 DEF Projection!Max
    <3> HIDE DEF top
    <3>3. top \in Nat /\ n \in Nat /\ top >= n /\ n >= top
      BY <2>1, <3>1, <3>2
    <3>4. top = n
      BY <3>3
    <3> QED
      BY <3>4 DEF top
  <2>2. ASSUME NEW t \in Turns
        PROVE  /\ usage[t] <= Projection!Max(Counts(heard[t]))
               /\ Projection!Tracked(t) => usage[t] = Projection!Max(Counts(heard[t]))
    <3>1. Counts(heard[t]) \subseteq Nat
      <4>1. \A n \in DOMAIN heard[t] : heard[t][n] \in Happenings
        BY <1>1 DEF ProjTypes
      <4>2. \A x \in Happenings : x.item \in Nat
        BY DEF Happenings
      <4> QED
        BY <4>1, <4>2 DEF Counts, Projection!Range
    <3>2. PICK n \in Nat : IsTop(n, heard[t]) /\ usage[t] <= n
      BY <1>1 DEF AllOf, UsageInv
    <3>3. Projection!Tracked(t) => IsTop(usage[t], heard[t])
      BY <1>1 DEF AllOf, UsageInv
    <3> QED
      BY <2>1, <3>1, <3>2, <3>3
  <2> QED
    BY <2>2 DEF Projection!UsageCountsOnce, Counts
<1>5. Projection!LiveIsReloaded
    BY <1>1 DEF Projection!LiveIsReloaded, AllOf, EndInv
<1> QED
    BY <1>2, <1>3, <1>4, <1>5

\* A recorded terminal has the whole answer of its turn with it, a turn that could not be
\* saved keeps its projection for the next terminal, usage counts once, and a window shows
\* what it will read again (complete_turn, retain_failed_root_projection, project_usage).
THEOREM AnswersAreSaved == Spec => []AnswerIsSaved
<1> DEFINE Inv == part = "Projection" => ProjectionInv
<1>1. Init => Inv
    BY ProjectionStarts DEF Init
<1>2. Inv /\ [Next]_vars => Inv'
  <2> SUFFICES ASSUME Inv, [Next]_vars, part' = "Projection" PROVE ProjectionInv'
    OBVIOUS
  <2>1. part = "Projection"
    BY PartStays
  <2>2. Projection!Next \/ UNCHANGED Projection!vars
    BY <2>1, ProjectionMoves
  <2> QED
    BY <2>1, <2>2, ProjectionKeeps
<1>3. Inv => AnswerIsSaved
    BY ProjectionPromises DEF AnswerIsSaved
<1> QED
    BY <1>1, <1>2, <1>3, PTL DEF Spec

============================================================================
