------------------------------ MODULE Telemetry ------------------------------
(***************************************************************************)
(* Crash reports of the desktop and the consent to them (telemetry.rs,     *)
(* consent.rs).  The consent is a file that the program writes and that    *)
(* both of its processes, the program and the monitor that waits for its   *)
(* crash, read whenever they have something to report; a report is         *)
(* scrubbed where it is gated and sent later by another thread.            *)
(*                                                                         *)
(* A value in a report is a sort: "content" is what no pattern recognizes  *)
(* (a prompt, a host name, a path of a source file), "credential" is what  *)
(* the patterns of scrub.rs redact, "neutral" is neither.                  *)
(***************************************************************************)
EXTENDS Naturals, Sequences, FiniteSets

CONSTANTS
    Processes,     \* the program and its crash monitor
    MaxChanges,    \* bound on the changes of consent
    MaxReports     \* bound on the reports

VARIABLES
    consent,    \* the file: "on", "off", or "absent"
    writing,    \* what telemetry_set_consent is doing: "no", "enables", "removes", "overwrites"
    answered,   \* what it told last: "on" or "off"
    stuck,      \* whether an opt-out left the file as it was
    alive,      \* the processes that run
    seen,       \* what the file said when a process started
    report,     \* the report of a process: its stage, its content, whether it was asked for
    sent,       \* the reports that were sent
    changes, reports

vars == <<consent, writing, answered, stuck, alive, seen, report, sent, changes, reports>>

-----------------------------------------------------------------------------
(* A report: of each field the sorts of what it holds.  Contexts and crumbs are
   by the kind that decides. *)
Fields ==
    [message |-> {"credential"}, exception |-> {"credential"}, frame_name |-> {"credential"}, culprit |-> {"credential"},
     log_params |-> {"content"}, mechanism_data |-> {"content"}, frame_path |-> {"content"}, frame_vars |-> {"content"},
     crumb_agent |-> {"content"}, crumb_other |-> {"credential"}, crumb_data |-> {"content"}, template |-> {"content"},
     server_name |-> {"content"}, user |-> {"content"}, extra |-> {"content"}, images |-> {"content"},
     context_os |-> {"neutral"}, context_device |-> {"content"}, sdk_field |-> {"credential"}]

\* scrub_event and scrub_frames drop these, strip_pii_carriers those.
Cleared == {"log_params", "mechanism_data", "frame_path", "frame_vars", "crumb_agent", "crumb_data", "template"}
Carriers == {"server_name", "user", "extra", "images", "context_device"}

\* redact_json over the whole report
Redacted(sorts) == sorts \ {"credential"}

Scrubbed(e) == [f \in DOMAIN e |-> IF f \in Cleared \cup Carriers THEN {} ELSE Redacted(e[f])]

\* Mutant: what the file said when the process started counts.
LiveAtStart(p) == seen[p] = "on"
IsLive(p) == consent = "on"

-----------------------------------------------------------------------------
NoReport == [stage |-> "none", of |-> Fields, asked |-> FALSE]

Init ==
    /\ consent \in {"on", "absent"}
    /\ answered = IF consent = "on" THEN "on" ELSE "off"
    /\ writing = "no" /\ stuck = FALSE
    /\ alive = Processes
    /\ seen = [p \in Processes |-> consent]
    /\ report = [p \in Processes |-> NoReport]
    /\ sent = {} /\ changes = 0 /\ reports = 0

(* telemetry_set_consent: it answers the same whether it could write or not *)
SetConsent(enabled) ==
    /\ writing = "no" /\ changes < MaxChanges
    /\ changes' = changes + 1
    /\ writing' = IF enabled THEN "enables" ELSE "removes"
    /\ UNCHANGED <<consent, answered, stuck, alive, seen, report, sent, reports>>

Tell(answer, isStuck) ==
    /\ writing' = "no" /\ answered' = answer /\ stuck' = isStuck
    /\ UNCHANGED <<alive, seen, report, sent, changes, reports>>

Enable ==
    /\ writing = "enables"
    /\ consent' \in {"on", "off", consent}      \* written, in part, not at all
    /\ Tell("on", FALSE)

RemoveFile ==
    /\ writing = "removes"
    /\ \/ consent # "absent" /\ consent' = "absent" /\ Tell("off", FALSE)
       \/ /\ writing' = "overwrites"
          /\ UNCHANGED <<consent, answered, stuck, alive, seen, report, sent, changes, reports>>

Overwrite ==
    /\ writing = "overwrites"
    /\ \/ consent' = "off" /\ Tell("off", FALSE)
       \/ UNCHANGED consent /\ Tell("off", consent = "on")

(* A report is made, gated and scrubbed (before_send), and sent by a thread. *)
Capture(p) ==
    /\ p \in alive /\ report[p].stage = "none" /\ reports < MaxReports
    /\ reports' = reports + 1
    /\ report' = [report EXCEPT ![p].stage = "made"]
    /\ UNCHANGED <<consent, writing, answered, stuck, alive, seen, sent, changes>>

IsWithdrawn == answered = "off" /\ writing = "no" /\ ~stuck

BeforeSend(p) ==
    /\ p \in alive /\ report[p].stage = "made"
    /\ report' = [report EXCEPT ![p] = IF IsLive(p) THEN [stage |-> "queued", of |-> Scrubbed(@.of), asked |-> ~IsWithdrawn]
                                       ELSE NoReport]
    /\ UNCHANGED <<consent, writing, answered, stuck, alive, seen, sent, changes, reports>>

Send(p) ==
    /\ p \in alive /\ report[p].stage = "queued"
    /\ sent' = sent \cup {report[p]}
    /\ report' = [report EXCEPT ![p] = NoReport]
    /\ UNCHANGED <<consent, writing, answered, stuck, alive, seen, changes, reports>>

\* The process panics: what is queued is flushed in time, or lost.
Abort(p) ==
    /\ p \in alive
    /\ alive' = alive \ {p}
    /\ sent' \in {sent} \cup (IF report[p].stage = "queued" THEN {sent \cup {report[p]}} ELSE {})
    /\ report' = [report EXCEPT ![p] = NoReport]
    /\ UNCHANGED <<consent, writing, answered, stuck, seen, changes, reports>>

Start(p) ==
    /\ p \notin alive
    /\ alive' = alive \cup {p}
    /\ seen' = [seen EXCEPT ![p] = consent]
    /\ UNCHANGED <<consent, writing, answered, stuck, report, sent, changes, reports>>

Next ==
    \/ \E enabled \in BOOLEAN : SetConsent(enabled)
    \/ Enable \/ RemoveFile \/ Overwrite
    \/ \E p \in Processes : Capture(p) \/ BeforeSend(p) \/ Send(p) \/ Abort(p) \/ Start(p)

Spec == Init /\ [][Next]_vars

-----------------------------------------------------------------------------
\* Neither process lets a report go after the user took the consent back, and no
\* report that is sent holds anything but redacted text (consent_is_live, read at
\* each report; scrub_event). Excepted is a consent that neither could be removed
\* nor overwritten: the answer does not tell.
ReportsAreAsked ==
    \A r \in sent :
        /\ r.asked
        /\ \A f \in DOMAIN r.of : r.of[f] \subseteq {"neutral"}
=============================================================================
