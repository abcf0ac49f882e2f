----------------------------- MODULE AutoUpdate -----------------------------
(***************************************************************************)
(* The update poller, on the settings table: each poll reads the pin, asks *)
(* the forge, reads the mode and acts.  A timer runs one a minute and an   *)
(* application may run another inside; between two steps the mode, the     *)
(* pin and the tags may change, and the process may end.                   *)
(*                                                                         *)
(* Tags are versions, or names that are not (Odd).  The text of a tag may  *)
(* be the beginning of that of another, as that of v1.1 is of v1.10.       *)
(***************************************************************************)
EXTENDS Settings, FiniteSetsExt

CONSTANTS Pollers, Odd,
          Tags,       \* what the forge has, or will have
          Begins      \* the pairs of tags of which the first begins the second

ASSUME UpdateAssumption ==
    /\ Odd \notin Nat /\ Tags \subseteq Nat \cup {Odd} /\ 1 \in Tags /\ IsFiniteSet(Tags)
    /\ Begins \subseteq Tags \X Tags

VARIABLES pin,      \* the tag pyproject.toml is pinned to
          flag,     \* the rebuild flag file exists
          built,    \* the pin of the last rebuild
          poll,     \* what each poller is doing
          lost      \* history: a poller ended between the bump and the flag
updateVars == <<pin, flag, built, poll, lost>>
vars == <<settingsVars, updateVars>>

Modes == {"off", "notify", "auto"}

mode == IF Has(rows["global"], ModeKey) THEN Get(rows["global"], ModeKey).text ELSE "none"

Resting == [at |-> "idle", current |-> Odd, latest |-> Odd, saw |-> FALSE, text |-> Odd, updated |-> Odd]
PollGo(p, at) == poll' = [poll EXCEPT ![p].at = at]

UpdateInit == /\ pin \in {1, Odd} /\ flag = FALSE /\ built = pin
              /\ poll = [p \in Pollers |-> Resting] /\ lost = FALSE

-----------------------------------------------------------------------------
(* _is_newer: versions are compared; a tag that is none is newer when it   *)
(* is another.                                                             *)
IsNewer(current, latest) == IF Odd \in {current, latest} THEN current # latest ELSE latest > current

(* check_once, _read_current_pin: a pyproject.toml without a pin is an     *)
(* error.                                                                  *)
ReadPin(p) ==
    /\ poll[p].at = "idle" /\ ops < MaxOps /\ ops' = ops + 1
    /\ poll' = [poll EXCEPT ![p] = [Resting EXCEPT !.at = "fetch", !.current = pin]]
    /\ UNCHANGED <<rows, req, config, cache, overlapped, pin, flag, built, lost>>

(* _version_key: names that are no versions come last. *)
LatestTag(tags) == IF tags = {Odd} THEN Odd ELSE Max(tags \ {Odd})

(* _fetch_latest_tag: the release the forge calls its latest, which need   *)
(* not be the highest; without releases, _fetch_latest_from_tags: the      *)
(* highest of the tags published so far; or an error.                      *)
FetchLatest(p) ==
    /\ poll[p].at = "fetch"
    /\ \/ \E tag \in Tags \cup {LatestTag(tags) : tags \in (SUBSET Tags) \ {{}}} :
             poll' = [poll EXCEPT ![p].at = "mode", ![p].latest = tag]
       \/ poll' = [poll EXCEPT ![p] = Resting]
    /\ UNCHANGED <<settingsVars, pin, flag, built, lost>>

(* _read_mode: no row, a value that is no mode, or a lookup that fails is  *)
(* notify.                                                                 *)
ReadMode == {"notify"} \cup (IF mode \in Modes THEN {mode} ELSE {})

(* check_once: what the mode says, when there is something newer. *)
Decide(p) ==
    /\ poll[p].at = "mode"
    /\ \E m \in ReadMode :
          IF ~IsNewer(poll[p].current, poll[p].latest) \/ m = "off" THEN poll' = [poll EXCEPT ![p] = Resting]
          ELSE PollGo(p, IF m = "auto" THEN "bump" ELSE "notify")
    /\ UNCHANGED <<settingsVars, pin, flag, built, lost>>

(* _emit_notify, upsert: the pending row is looked for, ... *)
LookPending(p) ==
    /\ poll[p].at = "notify"
    /\ poll' = [poll EXCEPT ![p].at = "emit", ![p].saw = Has(rows["global"], PendingKey)]
    /\ UNCHANGED <<settingsVars, pin, flag, built, lost>>

Store(key, value, exists) == /\ rows' = [rows EXCEPT !["global"][key] = Upsert(@, value, exists)]
                             /\ UNCHANGED <<req, config, cache, overlapped>>

(* ... and written; a write that fails is only logged. *)
EmitNotify(p) ==
    /\ poll[p].at = "emit" /\ poll' = [poll EXCEPT ![p] = Resting]
    /\ \/ Store(PendingKey, V("", ""), poll[p].saw) /\ UNCHANGED ops
       \/ UNCHANGED settingsVars
    /\ UNCHANGED <<pin, flag, built, lost>>

(* Slip: whatever the pin is by now is replaced. *)
SlipReplaced(text, current, latest) == {latest, text}

(* What replacing the first "@current" by "@latest" makes of the pin in a  *)
(* text: another dependency may come first; and a longer tag keeps its     *)
(* end, which gives some tag or other.                                     *)
Replaced(text, current, latest) ==
    IF text = current THEN {latest, text}
    ELSE IF <<current, text>> \in Begins THEN Tags \cup {text} ELSE {text}

(* _bump_pin: the text is read and the tag that was read at first replaced *)
(* in it; when it no longer occurs, or the file cannot be read, the poll   *)
(* fails.                                                                  *)
BumpRead(p) ==
    /\ poll[p].at = "bump"
    /\ \/ poll' = [poll EXCEPT ![p] = Resting]
       \/ \E updated \in Replaced(pin, poll[p].current, poll[p].latest) :
             poll' = [poll EXCEPT ![p].at = "write", ![p].text = pin, ![p].updated = updated]
    /\ UNCHANGED <<settingsVars, pin, flag, built, lost>>

(* _bump_pin: the whole text is written, whatever has been written since.  *)
BumpWrite(p) ==
    /\ poll[p].at = "write" /\ pin' = poll[p].updated /\ PollGo(p, "flag")
    /\ UNCHANGED <<settingsVars, flag, built, lost>>

(* Slip: a write that fails is only logged. *)
SlipTouchRebuildFlag(p) ==
    /\ poll[p].at = "flag" /\ flag' \in {flag, TRUE} /\ poll' = [poll EXCEPT ![p] = Resting]
    /\ UNCHANGED <<settingsVars, pin, built, lost>>

(* _touch_rebuild_flag, and exit code 75. *)
TouchRebuildFlag(p) ==
    /\ poll[p].at = "flag" /\ flag' = TRUE /\ poll' = [poll EXCEPT ![p] = Resting]
    /\ UNCHANGED <<settingsVars, pin, built, lost>>

-----------------------------------------------------------------------------
(* The process ends. *)
Stop(p) == /\ poll[p].at # "idle" /\ poll' = [poll EXCEPT ![p] = Resting]
           /\ lost' = (lost \/ poll[p].at = "flag")
           /\ UNCHANGED <<settingsVars, pin, flag, built>>

(* The host takes the flag away and rebuilds with the pin it finds. *)
Rebuild == /\ flag /\ flag' = FALSE /\ built' = pin
           /\ UNCHANGED <<settingsVars, pin, poll, lost>>

(* The mode arrives with rows of another node or of a backup: no request   *)
(* writes it, since set_global drops the keys its schema does not have.    *)
SyncMode ==
    \E m \in Modes \cup {"junk"} :
        /\ ops < MaxOps /\ ops' = ops + 1 /\ m # mode
        /\ Store(ModeKey, V(m, ""), Has(rows["global"], ModeKey))
        /\ UNCHANGED <<pin, poll, flag, built, lost>>

UpdateNext == \/ Rebuild \/ SyncMode
              \/ \E p \in Pollers : \/ ReadPin(p) \/ FetchLatest(p) \/ Decide(p) \/ LookPending(p) \/ EmitNotify(p)
                                    \/ BumpRead(p) \/ BumpWrite(p) \/ TouchRebuildFlag(p) \/ Stop(p)

Next == UpdateNext \/ (SettingsNext /\ UNCHANGED updateVars)
Init == SettingsInit /\ UpdateInit
Spec == Init /\ [][Next]_vars

-----------------------------------------------------------------------------

(* _bump_pin: a poll writes over a pin that is not the one in the text it  *)
(* read, or it replaced the beginning of a longer tag.                     *)
Races(p) == /\ poll[p].at = "write"
            /\ pin # poll[p].text \/ <<poll[p].current, poll[p].text>> \in Begins

(* _is_newer, _bump_pin: the pin goes from no version to a lower one,      *)
(* although a poll replaces a pin it read and compared long before; unless *)
(* another poll has written between this one's read of the text and its    *)
(* write, or the text holds a tag that only begins with the one replaced:  *)
(* in both cases the code does lower the pin.                              *)
OnlyRacesLowerThePin ==
    [][pin # Odd /\ pin' # Odd => pin' >= pin \/ \E p \in Pollers : Races(p)]_vars

(* check_once: a pin that has not been built is asked for by the flag, or  *)
(* about to be, unless the poller ended between the two.                   *)
BumpsAreRebuilt == pin # built => flag \/ lost \/ \E p \in Pollers : poll[p].at = "flag"
=============================================================================
