---------------------------- MODULE ImportWizard -----------------------------
(***************************************************************************)
(* Importing the statement of a bank: choose a file and an account, map    *)
(* its columns if the server cannot, look at the rows and commit those     *)
(* ticked.  The server compares a statement with what the account has when *)
(* it parses it; what is committed later is not compared again.  A row is  *)
(* the fingerprint of its date, amount and description.                    *)
(***************************************************************************)
EXTENDS ApiMutation, FiniteSets

CONSTANTS
  Statement,    \* files
  RowsOf,       \* the rows of a file
  BadRows,      \* those whose date or amount cannot be read
  Layout,       \* "known": preset or linked template; "unknown", "scanned", "refused"
  ImportTo,     \* accounts
  MaxParses,    \* bound: files sent to be parsed
  MaxCommits,   \* bound: commits
  MaxOthers     \* bound: rows that other clients book

ASSUME ImportAssumption ==
  /\ DOMAIN RowsOf = Statement
  /\ \A f \in Statement : BadRows[f] \subseteq RowsOf[f]
  /\ Layout \in [Statement -> {"known", "unknown", "scanned", "refused"}]
  /\ MaxParses \in Nat /\ MaxCommits \in Nat /\ MaxOthers \in Nat

NoFile == "no file"
NoAccount == "no account"
ImportRow == UNION {RowsOf[f] : f \in Statement}

VARIABLES
  chosen,      \* file and account chosen on the page
  wizard,      \* the step and what it was entered with
  ticked,      \* rows ticked in the preview
  parse,       \* the request to parse
  commit,      \* the request to commit
  ledger_rows, \* per account, the rows booked
  import_log   \* counters of the bounds; history: rows ticked by hand in this preview,
               \* rows booked again although nobody asked

import_vars == <<chosen, wizard, ticked, parse, commit, ledger_rows, import_log>>

Upload == [step |-> "upload"]
Preview(f, a, flagged, seen) ==
  [step |-> "preview", file |-> f, account |-> a, flagged |-> flagged,
   compared |-> a, seen |-> seen]   \* history: the account compared with, and its rows

ImportInit ==
  /\ chosen = [file |-> NoFile, account |-> NoAccount]
  /\ wizard = Upload /\ ticked = {}
  /\ parse = NoRequest /\ commit = NoRequest
  /\ ledger_rows = [a \in ImportTo |-> {}]
  /\ import_log = [parses |-> 0, commits |-> 0, others |-> 0, byhand |-> {}, again |-> {}]

-----------------------------------------------------------------------------
(* Upload and mapping *)

\* Both stay open while a file is being parsed.
Choose(f, a) ==
  /\ wizard.step = "upload"
  /\ \/ chosen' = [chosen EXCEPT !.file = f]
     \/ chosen' = [chosen EXCEPT !.account = a]
  /\ UNCHANGED <<wizard, ticked, parse, commit, ledger_rows, import_log>>

SendParse(f, a, mapped) ==
  /\ ~IsPending(parse) /\ import_log.parses < MaxParses
  /\ parse' = Request([file |-> f, account |-> a, mapped |-> mapped, answer |-> Upload])
  /\ import_log' = [import_log EXCEPT !.parses = @ + 1]
  /\ UNCHANGED <<chosen, wizard, ticked, commit, ledger_rows>>

UploadNext ==
  /\ wizard.step = "upload" /\ chosen.file # NoFile /\ chosen.account # NoAccount
  /\ SendParse(chosen.file, chosen.account, FALSE)

MapColumns ==
  /\ wizard.step = "mapping"
  /\ SendParse(wizard.file, wizard.account, TRUE)

\* "Back" forgets the step; that of the preview forgets the file, too.
BackToUpload ==
  /\ wizard.step # "upload"
  /\ wizard' = Upload
  /\ chosen' = IF wizard.step = "preview" THEN [chosen EXCEPT !.file = NoFile] ELSE chosen
  /\ ticked' = {}
  /\ UNCHANGED <<parse, commit, ledger_rows, import_log>>

\* mark_duplicates: rows the account has already.
FlaggedFaulty(f, a) == {}
Flagged(f, a) == (RowsOf[f] \ BadRows[f]) \cap ledger_rows[a]

\* A layout that nobody has described yet is not parsed but asked for.
NeedsMappingFaulty(f, mapped) == ~mapped /\ Layout[f] # "known"
NeedsMapping(f, mapped) == ~mapped /\ Layout[f] = "unknown"

\* parse_upload.  A mapping may fit or not.
ServeParse ==
  /\ AtServer(parse)
  /\ LET f == parse.body.file
         a == parse.body.account
         complete == Preview(f, a, Flagged(f, a), ledger_rows[a])
     IN  \/ /\ Layout[f] = "known" \/ parse.body.mapped
            /\ parse' = Done([parse EXCEPT !.body.answer = complete])
         \/ /\ NeedsMapping(f, parse.body.mapped)
            /\ parse' = Done([parse EXCEPT !.body.answer =
                                [step |-> "mapping", file |-> f, account |-> a]])
         \/ /\ Layout[f] = "scanned"
            /\ parse' = Done([parse EXCEPT !.body.answer = [step |-> "scanned"]])
         \/ /\ Layout[f] = "refused" \/ parse.body.mapped
            /\ parse' = Declined(parse)
  /\ UNCHANGED <<chosen, wizard, ticked, commit, ledger_rows, import_log>>

\* The step the answer leads to has the file and the account that were sent.
EnteredFaulty(answer) ==
  IF answer.step = "preview" THEN [answer EXCEPT !.account = chosen.account] ELSE answer
Entered(answer) == answer

\* Ticked at first: what can be read and the server has not flagged.
TickedAtFirstFaulty(answer) == RowsOf[answer.file] \ answer.flagged
TickedAtFirst(answer) == RowsOf[answer.file] \ (BadRows[answer.file] \cup answer.flagged)

\* The answer is taken in any step; a preview that is mounted keeps its ticks.
AnswerParse ==
  /\ \/ /\ AnsweredWell(parse)
        /\ wizard' = Entered(parse.body.answer)
        /\ ticked' = IF wizard'.step # "preview" THEN {}
                     ELSE IF wizard.step = "preview" THEN ticked ELSE TickedAtFirst(wizard')
        /\ import_log' = [import_log EXCEPT !.byhand = {}]
     \/ /\ AnsweredBadly(parse)
        /\ UNCHANGED <<wizard, ticked, import_log>>
  /\ parse' = NoRequest
  /\ UNCHANGED <<chosen, commit, ledger_rows>>

-----------------------------------------------------------------------------
(* Preview and commit *)

ToggleRow(r) ==
  /\ wizard.step = "preview" /\ r \in RowsOf[wizard.file] \ BadRows[wizard.file]
  /\ ticked' = IF r \in ticked THEN ticked \ {r} ELSE ticked \cup {r}
  /\ import_log' = [import_log EXCEPT !.byhand = @ \cup {r}]
  /\ UNCHANGED <<chosen, wizard, parse, commit, ledger_rows>>

SendCommit ==
  /\ wizard.step = "preview" /\ ticked # {} /\ ~IsPending(commit)
  /\ import_log.commits < MaxCommits
  /\ commit' = Request([account |-> wizard.account, rows |-> ticked, from |-> wizard,
                        byhand |-> import_log.byhand])
  /\ import_log' = [import_log EXCEPT !.commits = @ + 1]
  /\ UNCHANGED <<chosen, wizard, ticked, parse, ledger_rows>>

\* commit_import books every row it is sent.
ServeCommit ==
  /\ AtServer(commit)
  /\ LET a == commit.body.account
         again == commit.body.rows \cap ledger_rows[a]
     IN  /\ ledger_rows' = [ledger_rows EXCEPT ![a] = @ \cup commit.body.rows]
         /\ import_log' = [import_log EXCEPT
              !.again = @ \cup ((again \cap commit.body.from.seen) \ commit.body.byhand)]
  /\ commit' = Done(commit)
  /\ UNCHANGED <<chosen, wizard, ticked, parse>>

\* A commit that has gone well leads to the page of the account, from whichever
\* step the user has gone back to.  Until then the button works again.
AnswerCommit ==
  /\ \/ /\ AnsweredWell(commit)
        /\ \/ UNCHANGED <<chosen, wizard, ticked, parse>>
           \/ /\ wizard' = Upload /\ ticked' = {} /\ parse' = NoRequest
              /\ chosen' = [file |-> NoFile, account |-> NoAccount]
     \/ AnsweredBadly(commit) /\ UNCHANGED <<chosen, wizard, ticked, parse>>
  /\ commit' = NoRequest
  /\ UNCHANGED <<ledger_rows, import_log>>

\* Another client books what is a row of a statement.
BookElsewhere(a, r) ==
  /\ import_log.others < MaxOthers
  /\ ledger_rows' = [ledger_rows EXCEPT ![a] = @ \cup {r}]
  /\ import_log' = [import_log EXCEPT !.others = @ + 1]
  /\ UNCHANGED <<chosen, wizard, ticked, parse, commit>>

ImportNext ==
  \/ (\E f \in Statement, a \in ImportTo : Choose(f, a))
  \/ UploadNext \/ MapColumns \/ BackToUpload \/ ServeParse \/ AnswerParse
  \/ (\E r \in ImportRow : ToggleRow(r)) \/ SendCommit \/ ServeCommit \/ AnswerCommit
  \/ \E a \in ImportTo, r \in ImportRow : BookElsewhere(a, r)

ImportSpec == ImportInit /\ [][ImportNext]_import_vars

-----------------------------------------------------------------------------
(* Properties *)

ImportTypeOK ==
  /\ chosen.file \in Statement \cup {NoFile} /\ chosen.account \in ImportTo \cup {NoAccount}
  /\ wizard.step \in {"upload", "mapping", "preview", "scanned"}
  /\ wizard.step # "preview" => ticked = {}
  /\ wizard.step = "mapping" => Layout[wizard.file] = "unknown"
  /\ ledger_rows \in [ImportTo -> SUBSET ImportRow]
  /\ \A m \in {parse, commit} : m.stage \in {"none", "sent", "done", "declined"}

\* The rows ticked are rows of the file in the preview, none of them one that
\* could not be read (its date and amount are sent as they are, preview-step.tsx).
TickedAreReadable ==
  wizard.step = "preview" => ticked \subseteq RowsOf[wizard.file] \ BadRows[wizard.file]

\* A row that the account had when its statement was parsed is not booked again,
\* unless the user ticks it: with the account that can be changed while the
\* server parses, and with a preview that is left and entered again.  (What is
\* booked between the parse and the commit is.)
NotBookedTwiceUnasked == import_log.again = {}

\* Rows go to the account they were compared with, whatever has been chosen on
\* the page since (accountId in the state of the wizard).
CommittedWhereCompared ==
  AtServer(commit) => commit.body.account = commit.body.from.compared

\* The wizard, with a page that goes on while the server parses and commits: the
\* rows are those of the preview, on the account they were compared with, and
\* only what was booked after the comparison is booked again.
ImportInvariant ==
  ImportTypeOK /\ TickedAreReadable /\ CommittedWhereCompared /\ NotBookedTwiceUnasked
=============================================================================
