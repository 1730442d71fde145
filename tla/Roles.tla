-------------------------------- MODULE Roles --------------------------------
(***************************************************************************)
(* What a command, a gate or the call of a role can come to.  Operators    *)
(* only: every text a provider writes is abstracted to what the code reads *)
(* out of it, and the executor draws its outcomes from the sets below.     *)
(***************************************************************************)

Outcome == {"GO", "NO_GO", "raise"}

-----------------------------------------------------------------------------
(* Commands and gates.                                                     *)

\* A command: what the policy thinks of it, whether it can be started, how it ends.
Command ==
    [allowed : BOOLEAN, forbidden : BOOLEAN, starts : BOOLEAN,
     ends : {"zero", "nonzero", "late"}]

\* The policy of the gates is not read-only: two of its three conditions apply.
validate_command(c) == ~c.forbidden /\ c.allowed

\* A command that outlives its timeout is killed, whatever it exits with.
run_cli(c) ==
    CASE ~validate_command(c) -> "POLICY_VIOLATION"
      [] validate_command(c) /\ c.starts /\ c.ends = "late" -> "TIMEOUT"
      [] validate_command(c) /\ c.starts /\ c.ends = "zero" -> "OK"
      [] OTHER -> "ERROR"

\* A command that fails is an ERROR of the runner: FAIL is never produced.
gate_status(c) ==
    CASE run_cli(c) = "OK" -> "PASSED"
      [] run_cli(c) = "TIMEOUT" -> "TIMEOUT"
      [] OTHER -> "ERROR"

\* Every command is run; the scope is that of the diff since the baseline.
run_auto_gates(commands, in_scope) ==
    IF in_scope /\ \A c \in commands : gate_status(c) = "PASSED"
    THEN "GO" ELSE "NO_GO"

\* Suites of no command or of one, another one adding nothing.
Suites == {{}} \cup {{c} : c \in Command}

gates_results ==
    [in_scope \in BOOLEAN |-> {run_auto_gates(s, in_scope) : s \in Suites}]

-----------------------------------------------------------------------------
(* Verdicts.                                                               *)

\* A reply: the status of the call, and the verdict block found in its output.
Reply ==
    [status : {"OK", "EXHAUSTED", "TIMEOUT", "ERROR"},
     block : {"GO", "NO_GO", "none"}, motifs : BOOLEAN]

\* A NO GO without a motif is as unreadable as no block at all.
parse_go_no_go(reply) ==
    IF reply.block = "none" \/ (reply.block = "NO_GO" /\ ~reply.motifs)
    THEN "unreadable" ELSE reply.block

\* One retry, asking the same provider to format its answer again.
parse_provider_verdict(first, retry) ==
    CASE parse_go_no_go(first) # "unreadable" -> parse_go_no_go(first)
      [] /\ parse_go_no_go(first) = "unreadable"
         /\ retry.status = "OK"
         /\ parse_go_no_go(retry) # "unreadable" -> parse_go_no_go(retry)
      [] OTHER -> "raise"

verdict_of(first, retry) ==
    IF first.status = "OK" THEN parse_provider_verdict(first, retry) ELSE "raise"

verdicts == {verdict_of(first, retry) : first, retry \in Reply}

\* A diff that adds a weakening of the gates is refused before the provider is
\* asked; a parasite instruction alone is not.
scan_diff == {{}, {"INSTRUCTION_PARASITE"}, {"GATE_WEAKENING"},
              {"INSTRUCTION_PARASITE", "GATE_WEAKENING"}}

blocks_merge(findings) == "GATE_WEAKENING" \in findings

\* The branch is checked out, the gates are run again, the diff is scanned.
TesterRole_run(checked_out, gates, findings, verdict) ==
    CASE ~checked_out -> "raise"
      [] checked_out /\ (gates = "NO_GO" \/ blocks_merge(findings)) -> "NO_GO"
      [] OTHER -> verdict

tester_results ==
    [in_scope \in BOOLEAN |->
        {TesterRole_run(o, g, f, v) :
            o \in BOOLEAN, g \in gates_results[in_scope], f \in scan_diff, v \in verdicts}]

\* The verdict is posted on the pull request: when gh refuses, it is lost.
ReviewerRole_run(diff_read, verdict, posted) ==
    IF diff_read /\ posted THEN verdict ELSE "raise"

reviewer_results ==
    {ReviewerRole_run(d, v, p) : d, p \in BOOLEAN, v \in verdicts}

-----------------------------------------------------------------------------
(* Development.                                                            *)

\* What a call leaves between the baseline and HEAD, for an item that declares
\* a scope or not.  Files are changed by commits only.
Delivery ==
    {d \in [scoped : BOOLEAN, commits : BOOLEAN, changes : BOOLEAN, tests : BOOLEAN,
            inside : BOOLEAN, pr_body : BOOLEAN] :
        /\ d.changes => d.commits
        /\ ~d.changes => d.inside /\ ~d.tests}

verify_delivery(d) ==
    /\ d.commits
    /\ d.changes
    /\ d.scoped => d.tests /\ d.inside

\* A rejected delivery raises, and leaves its commits where they are.
DevRole_run(status, d) == status = "OK" /\ verify_delivery(d) /\ d.pr_body

dev_results ==
    {[commits |-> d.commits, strays |-> d.scoped /\ ~d.inside,
      accepted |-> DevRole_run(r.status, d)] : d \in Delivery, r \in Reply}
=============================================================================
