----------------------------- MODULE AccountPage -----------------------------
(***************************************************************************)
(* The account page of the new frontend: the panel of a user (UserPanel),  *)
(* with the modal that adds an SSH key (SSHKeysForm).                      *)
(*                                                                         *)
(* A text is what split(/\s+/) makes of it: a sequence of words, of which  *)
(* only the first and the last may be empty (white space at an end).  A    *)
(* word is the sequence of its parts, so that joining two words with a     *)
(* colon is concatenation.  Undefined is a field nobody has touched.       *)
(***************************************************************************)
EXTENDS Integers, SequencesExt

CONSTANTS acceptedAlgorithms, Parts, NameTexts, KeyTexts, Undefined

\* What is typed is a text: split never returns an empty array.
ASSUME AccountAssumption ==
  /\ ":" \in Parts
  /\ NameTexts \union KeyTexts \subseteq Seq(Seq(Parts)) \ {<<>>}

VARIABLES showSSHModal, \* the modal of UserPanel is visible
          fields,       \* the fields of the antd form: [name, key]
          validForm,    \* enables the Save button
          savedKeys     \* the arguments onSaveKey was called with

accountVars == <<showSSHModal, fields, validForm, savedKeys>>

Untouched == [name |-> Undefined, key |-> Undefined]

AccountInit ==
  /\ showSSHModal = FALSE
  /\ fields = Untouched
  /\ validForm = FALSE
  /\ savedKeys = {}

-----------------------------------------------------------------------------
(* Texts. *)

\* A text JavaScript takes for true: neither undefined nor ''.
Truthy(text) == text \notin {Undefined, << <<>> >>}

\* The words of a text at the places to keep.
Sifted(text, places) ==
  LET kept[n \in 0 .. Len(text)] ==
        IF n = 0 THEN <<>>
        ELSE IF n \in places THEN Append(kept[n - 1], text[n]) ELSE kept[n - 1]
  IN  kept[Len(text)]

NotEmpty(text) == {i \in 1 .. Len(text) : text[i] # <<>>}

\* Concatenating texts with a space between them and splitting the result.
Spaced(a, b) ==
  LET both == a \o b
  IN  Sifted(both, NotEmpty(both) \union {1, Len(both)})

\* Concatenating texts with a colon between them.
Coloned(a, b) == Front(a) \o << Last(a) \o <<":">> \o Head(b) >> \o Tail(b)

\* String.trim: white space goes from both ends.
Trim(text) ==
  LET words == Sifted(text, NotEmpty(text))
  IN  IF words = <<>> THEN << <<>> >> ELSE words

-----------------------------------------------------------------------------
(* The rules of the form. *)

\* The rule without its check for an empty body.
ValidKey_bodiless(key) ==
  /\ Truthy(key)
  /\ Len(key) \in {2, 3}
  /\ key[1] \in acceptedAlgorithms

ValidKey(key) ==
  /\ Truthy(key)
  /\ Len(key) \in {2, 3}
  /\ key[2] # <<>>
  /\ key[1] \in acceptedAlgorithms

\* The rule of the name is antd's "required": any text that is not empty.
Rules(f) == Truthy(f.name) /\ ValidKey(f.key)

\* handleChange: a change that leaves one field empty validates the other one
\* alone, and does not take back an earlier success.
StillValid(f) ==
  CASE Truthy(f.key) /\ Truthy(f.name) -> Rules(f)
    [] Truthy(f.key) /\ ~Truthy(f.name) -> validForm /\ ValidKey(f.key)
    [] OTHER -> validForm /\ Truthy(f.name)

\* The call submitForm makes: the name is appended to the key.
Submitted(f) ==
  LET name == Trim(f.name)
      commented == Len(f.key) = 3 /\ f.key[3] # <<>>
  IN  [name |-> name,
       key |-> IF commented THEN Coloned(f.key, name) ELSE Spaced(f.key, name)]

-----------------------------------------------------------------------------
(* What the user does. *)

AddKey ==
  /\ ~showSSHModal
  /\ showSSHModal' = TRUE
  /\ UNCHANGED <<fields, validForm, savedKeys>>

\* The validators wait for nothing, so the validation a change starts is over
\* before the next event.
Change(field, text) ==
  /\ showSSHModal
  /\ fields' = [fields EXCEPT ![field] = text]
  /\ validForm' = StillValid(fields')
  /\ UNCHANGED <<showSSHModal, savedKeys>>

\* The Cancel button resets the fields and not validForm.
CancelForm ==
  /\ showSSHModal
  /\ fields' = Untouched
  /\ showSSHModal' = FALSE
  /\ UNCHANGED <<validForm, savedKeys>>

\* The cross of the modal leaves the form as it is.
CloseModal ==
  /\ showSSHModal
  /\ showSSHModal' = FALSE
  /\ UNCHANGED <<fields, validForm, savedKeys>>

\* The Save button; antd calls submitForm only when every rule holds.
Save ==
  /\ showSSHModal /\ validForm
  /\ Rules(fields)
  /\ savedKeys' = savedKeys \union {Submitted(fields)}
  /\ fields' = Untouched
  /\ showSSHModal' = FALSE
  /\ UNCHANGED validForm

AccountNext ==
  \/ AddKey
  \/ \E name \in NameTexts : Change("name", name)
  \/ \E key \in KeyTexts : Change("key", key)
  \/ CancelForm
  \/ CloseModal
  \/ Save

AccountSpec == AccountInit /\ [][AccountNext]_accountVars

-----------------------------------------------------------------------------
(* Whatever was typed, cleared, cancelled and typed again, and although    *)
(* Save stays enabled on a form that is no longer complete, a key handed   *)
(* to onSaveKey (SSHKeysForm.tsx:54) is one sshd can read: an accepted     *)
(* algorithm, the body as it was typed, and the name at the end of the     *)
(* comment, never inside the body.                                         *)
SavedKeysAreWhole ==
  \A saved \in savedKeys :
    /\ saved.key[1] \in acceptedAlgorithms
    /\ \E key \in KeyTexts : key # << <<>> >> /\ Len(key) >= 2 /\ saved.key[2] = key[2]
    /\ saved.key[2] # <<>>
    /\ Last(saved.name) # <<>> => IsSuffix(Last(saved.name), Last(saved.key))
=============================================================================
