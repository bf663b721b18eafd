---------------------------- MODULE SavedProfiles ----------------------------
(* The saved_profiles table and the choices the code makes over it: which     *)
(* profile stands for an account, under which label an auth is saved, which   *)
(* rows a save removes.  Rows are [acct, gen, reauth]: the account identity   *)
(* extracted from the auth (its key, e-mail and token go together), the       *)
(* generation of the tokens (a later grant has a larger one) and the          *)
(* reauth_required flag.  Labels are numbers, in the order of the table.      *)
EXTENDS Naturals, FiniteSets

CONSTANTS
    Labels,      \* labels a profile can be saved under
    Accounts,    \* account identities
    MaxGen,      \* bound: token generations the provider grants
    None

Gens == 1..MaxGen
Auth == [acct : Accounts, gen : Gens]
Row == [acct : Accounts, gen : Gens, reauth : BOOLEAN]

ASSUME ProfilesAssumption ==
    /\ Labels \subseteq Nat /\ IsFiniteSet(Labels)
    /\ MaxGen \in Nat
    /\ None \notin Labels /\ None \notin Accounts /\ None \notin Auth /\ None \notin Row

Table == [Labels -> Row \cup {None}]

AuthOf(row) == [acct |-> row.acct, gen |-> row.gen]

Used(profiles) == {l \in Labels : profiles[l] # None}

Holding(profiles, a) == {l \in Used(profiles) : profiles[l].acct = a}

Saved(profiles, a) == Holding(profiles, a) # {}

\* Writes the auth under the label, whatever the label held before.
Upsert(profiles, l, auth, flag) ==
    [profiles EXCEPT ![l] = [acct |-> auth.acct, gen |-> auth.gen, reauth |-> flag]]

\* An UPDATE by label: a row that is gone stays gone.
SetReauth(profiles, l, flag) ==
    IF profiles[l] = None THEN profiles ELSE [profiles EXCEPT ![l].reauth = flag]

First(labels) == CHOOSE l \in labels : \A m \in labels : l <= m

\* The one profile listed for an account: the active one, else the first.
Listed(profiles, activeLabel, a) ==
    LET held == Holding(profiles, a)
    IN  IF activeLabel \in held THEN activeLabel ELSE First(held)

Deduped(profiles, activeLabel) ==
    {Listed(profiles, activeLabel, a) : a \in {x \in Accounts : Saved(profiles, x)}}

\* The label an auth is saved under: the requested one, the one listed for its
\* account, or a fresh one.
TargetLabels(profiles, activeLabel, auth, wanted) ==
    IF wanted # None THEN {wanted}
    ELSE IF Saved(profiles, auth.acct) THEN {Listed(profiles, activeLabel, auth.acct)}
    ELSE Labels \ Used(profiles)

\* A listed label that belongs to another account is not overwritten.
Refused(profiles, activeLabel, auth, l) ==
    /\ l \in Deduped(profiles, activeLabel)
    /\ profiles[l].acct # auth.acct

UpToDate(profiles, activeLabel, auth, l) ==
    /\ l \in Deduped(profiles, activeLabel)
    /\ AuthOf(profiles[l]) = auth

\* Mutant of DuplicatesOf: the profile just saved is not kept.
DuplicatesAll(profiles, l, a) == Holding(profiles, a)

DuplicatesOf(profiles, l, a) == Holding(profiles, a) \ {l}
=============================================================================
