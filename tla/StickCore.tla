------------------------------ MODULE StickCore ------------------------------
(***************************************************************************)
(* The domain of internal/core: a stick, and the five transitions that      *)
(* change one.  Every Go transition returns (Stick, error); here it is a    *)
(* pair of operators, XError(...) for the error the checks produce in the   *)
(* order the code makes them ("nil" when there is none) and the successor   *)
(* stick, meaningful when the error is "nil".                               *)
(*                                                                          *)
(* Identities are their subject: name and e-mail are display data.  The     *)
(* archived_at timestamp is only ever tested for presence.  Names and       *)
(* reasons are abstract values, split by validation into valid and invalid. *)
(***************************************************************************)
EXTENDS StickTypes

CONSTANTS Names,       \* texts a form can carry as a stick name
          ValidNames,  \* the ones ValidateStickName accepts
          MaxVersion   \* math.MaxInt64, small in a model

ASSUME CoreAssumption ==
    /\ ValidNames \subseteq Names
    /\ MaxVersion \in Nat \ {0}
    /\ NULL \notin Names

\* A row of the sticks table.  holder and claimedAt are null together
\* (the CHECK of the schema); an absent row is written NoStick, whose version
\* no stored row can have.
Stick == [name      : Names \cup {NULL},
          version   : 0..MaxVersion,
          archived  : BOOLEAN,
          holder    : Users \cup {NULL},
          claimedAt : Nat]

NoStick == [name |-> NULL, version |-> 0, archived |-> FALSE,
            holder |-> NULL, claimedAt |-> 0]

Available(stick) == stick.holder = NULL

\* The first failing check of a transition decides its error.
FirstError(err, next) == IF err # "nil" THEN err ELSE next

ErrorIf(cond, err) == IF cond THEN err ELSE "nil"

ValidateStickName(name) == ErrorIf(name \notin ValidNames, "ErrInvalidStickName")

ValidateClaimReason(valid) == ErrorIf(~valid, "ErrInvalidClaimReason")

\* Mutant: the limit of the version is not checked.
IncrementUnlimited(stick) == ErrorIf(stick.version < 1, "ErrVersionExhausted")

IncrementError(stick) ==
    ErrorIf(stick.version < 1 \/ stick.version = MaxVersion, "ErrVersionExhausted")

-----------------------------------------------------------------------------

NewStick(name) == [NoStick EXCEPT !.name = name, !.version = 1]

RenameError(stick, name) ==
    FirstError(ValidateStickName(name), IncrementError(stick))

Rename(stick, name) ==
    [stick EXCEPT !.version = @ + 1, !.name = name]

ArchiveError(stick) ==
    FirstError(ErrorIf(stick.archived, "ErrAlreadyArchived"),
    FirstError(ErrorIf(~Available(stick), "ErrHeld"),
               IncrementError(stick)))

Archive(stick) ==
    [stick EXCEPT !.version = @ + 1, !.archived = TRUE]

UnarchiveError(stick) ==
    FirstError(ErrorIf(~stick.archived, "ErrNotArchived"), IncrementError(stick))

Unarchive(stick) ==
    [stick EXCEPT !.version = @ + 1, !.archived = FALSE]

ClaimError(stick, reasonValid) ==
    FirstError(ValidateClaimReason(reasonValid),
    FirstError(ErrorIf(stick.archived, "ErrAlreadyArchived"),
    FirstError(ErrorIf(~Available(stick), "ErrAlreadyHeld"),
               IncrementError(stick))))

Claim(stick, user, at) ==
    [stick EXCEPT !.version = @ + 1, !.holder = user, !.claimedAt = at]

ReleaseError(stick, user) ==
    FirstError(ErrorIf(Available(stick) \/ stick.holder # user, "ErrNotHolder"),
               IncrementError(stick))

\* Mutant: a release does not count as a change.
ReleaseInPlace(stick) == [stick EXCEPT !.holder = NULL, !.claimedAt = 0]

Release(stick) ==
    [stick EXCEPT !.version = @ + 1, !.holder = NULL, !.claimedAt = 0]

=============================================================================
