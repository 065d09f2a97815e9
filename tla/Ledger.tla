-------------------------------- MODULE Ledger --------------------------------
(***************************************************************************)
(* What the event pipeline promises, without listeners, goroutines and     *)
(* stages: a ledger.  An event that is heard is settled at most once, by a *)
(* row that stays as it is or as a loss; a threat is reported once at most *)
(* and not before it is settled; what reports it may be heard in its turn. *)
(***************************************************************************)
EXTENDS Naturals

CONSTANTS EventNo,
          Rows  \* the rows there can be, with the fields no and score

VARIABLES
  heard,     \* the events the engine has heard
  rows,      \* the rows of those stored
  lost,      \* those whose insertion failed
  threats,   \* the threats among those settled
  reported   \* the threats an alert was published for

ledgerVars == <<heard, rows, lost, threats, reported>>

Settled == { r.no : r \in rows } \cup lost

LedgerInit ==
  /\ heard = {}
  /\ rows = {}
  /\ lost = {}
  /\ threats = {}
  /\ reported = {}

Hear(n) ==
  /\ n \notin heard
  /\ heard' = heard \cup {n}
  /\ UNCHANGED <<rows, lost, threats, reported>>

\* ProcessEvent judges the event and calls InsertEvent.  The threats among the
\* rows are those GetThreats selects.
Settle(n) ==
  /\ n \in heard \ Settled
  /\ \/ \E r \in Rows :
           /\ r.no = n
           /\ rows' = rows \cup {r}
           /\ threats' = IF r.score > 0 THEN threats \cup {n} ELSE threats
           /\ UNCHANGED lost
     \/ /\ lost' = lost \cup {n}
        /\ threats' \in {threats, threats \cup {n}}
        /\ UNCHANGED rows
  /\ UNCHANGED <<heard, reported>>

\* The alert is an event of its own, which the engine hears if it listens.
Report(n) ==
  /\ n \in threats \ reported
  /\ reported' = reported \cup {n}
  /\ heard' = heard \/ \E alert \in EventNo \ heard : heard' = heard \cup {alert}
  /\ UNCHANGED <<rows, lost, threats>>

LedgerNext == \E n \in EventNo : Hear(n) \/ Settle(n) \/ Report(n)

LedgerSpec == LedgerInit /\ [][LedgerNext]_ledgerVars

=============================================================================
