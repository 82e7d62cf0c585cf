----------------------------- MODULE EmailForm ------------------------------
(***************************************************************************)
(* The settings of the email action: the recipients, which are typed,      *)
(* pasted, edited in their chips and read from files, the subject and the  *)
(* message, the validation and what is saved into the node.                *)
(*                                                                         *)
(* A recipient is a text; parseEmail gives the address it stands for.  Of  *)
(* the subject and the message only the length is kept.                    *)
(***************************************************************************)
EXTENDS Naturals, Sequences, SequencesExt, Arrays

CONSTANTS
  Texts,                  \* what is typed, pasted and in files
  Empty,                  \* the empty text
  Addresses,              \* the texts that are email addresses
  LowerCase,              \* text -> text, in lower case
  Files,                  \* what files hold: the texts of their cells
  Pastes,                 \* what is pasted: sequences of texts
  Lengths,                \* bound: how long subjects and messages are
  MaxRecipients,          \* bound: recipients in the form
  MaxUploads,             \* bound: files read at a time
  NoValue

VARIABLES
  recipients, subject, message,      \* the fields
  focus,                             \* "none", "input" or "chip"
  inputValue,
  chip,                              \* the chip that is edited
  editValue,                         \* text -> what its chip's field holds
  inputMode,
  uploads, isLoading,                \* the files that are read
  config                             \* the node's configuration
fieldVars == <<recipients, subject, message>>
chipVars == <<chip, editValue>>
csvVars == <<inputMode, uploads, isLoading>>
vars == <<recipients, subject, message, focus, inputValue, chip, editValue,
          inputMode, uploads, isLoading, config>>

TypeOK ==
  /\ recipients \in Seq(Texts)
  /\ {subject, message} \subseteq Lengths \cup {0}
  /\ focus \in {"none", "input", "chip"}
  /\ inputValue \in Texts /\ editValue \in [Texts -> Texts]
  /\ chip \in Texts \cup {NoValue} /\ (focus = "chip") = (chip # NoValue)
  /\ inputMode \in {"manual", "csv"} /\ isLoading \in BOOLEAN
  /\ uploads \in Seq([value : Seq(Texts), file : Files \cup {NoValue}])
  /\ config # NoValue =>
       config \in [recipients : Seq(Texts), subject : Lengths \cup {0}, message : Lengths \cup {0}]

\* The address that a text stands for.
parseEmail == [text \in Texts |-> IF text \in Addresses THEN LowerCase[text] ELSE NoValue]

Fits == Len(recipients') <= MaxRecipients

\* The fields of chips that were not edited.
NewChips == [t \in Texts |-> t]

\* A chip keeps the text of its field for as long as its recipient stays; that of
\* a new recipient begins with the recipient.
KeptChips ==
  [t \in Texts |-> IF Contains(recipients, t) /\ Contains(recipients', t) THEN editValue[t] ELSE t]

-----------------------------------------------------------------------------
(* The input.                                                              *)

FocusInput ==
  /\ focus = "none"
  /\ focus' = "input"
  /\ UNCHANGED <<fieldVars, inputValue, chipVars, csvVars, config>>

Type(text) ==
  /\ focus = "input"
  /\ inputValue' = text
  /\ UNCHANGED <<fieldVars, focus, chipVars, csvVars, config>>

\* A text moves to the end of the recipients.
handleAdd ==
  /\ recipients' = IF inputValue = Empty THEN recipients
                   ELSE Append(filter(recipients, Texts \ {inputValue}), inputValue)
  /\ Fits
  /\ inputValue' = Empty
  /\ editValue' = KeptChips

\* Enter, a comma, Tab after text, and the button.
handleKeyDown ==
  /\ focus = "input"
  /\ handleAdd
  /\ UNCHANGED <<subject, message, focus, chip, csvVars, config>>

\* Every click elsewhere leaves the input first.
handleBlur ==
  /\ focus = "input"
  /\ handleAdd
  /\ focus' = "none"
  /\ UNCHANGED <<subject, message, chip, csvVars, config>>

\* The recipients and the texts pasted, each once, in the order of first use.
handlePaste(texts) ==
  /\ focus = "input"
  /\ recipients' = uniques(recipients \o texts)
  /\ Fits
  /\ inputValue' = Empty
  /\ editValue' = KeptChips
  /\ UNCHANGED <<subject, message, focus, chip, csvVars, config>>

-----------------------------------------------------------------------------
(* The chips.                                                              *)

\* The field shows what was last typed into it.
handleEdit(r) ==
  /\ focus = "none"
  /\ Contains(recipients, r)
  /\ focus' = "chip" /\ chip' = r
  /\ UNCHANGED <<fieldVars, inputValue, editValue, csvVars, config>>

TypeInChip(text) ==
  /\ focus = "chip"
  /\ editValue' = [editValue EXCEPT ![chip] = text]
  /\ UNCHANGED <<fieldVars, focus, inputValue, chip, csvVars, config>>

\* Enter, the button, and leaving the chip.
handleSave ==
  LET typed == editValue[chip]
      new == IF parseEmail[typed] = NoValue THEN typed ELSE parseEmail[typed]
  IN /\ focus = "chip"
     /\ recipients' = [i \in DOMAIN recipients |-> IF recipients[i] = chip THEN new ELSE recipients[i]]
     /\ focus' = "none" /\ chip' = NoValue /\ editValue' = KeptChips
     /\ UNCHANGED <<subject, message, inputValue, csvVars, config>>

Escape ==
  /\ focus = "chip"
  /\ focus' = "none" /\ chip' = NoValue
  /\ editValue' = [editValue EXCEPT ![chip] = chip]
  /\ UNCHANGED <<fieldVars, inputValue, csvVars, config>>

handleRemove(r) ==
  /\ focus = "none"
  /\ Contains(recipients, r)
  /\ recipients' = filter(recipients, Texts \ {r})
  /\ editValue' = KeptChips
  /\ UNCHANGED <<subject, message, focus, inputValue, chip, csvVars, config>>

-----------------------------------------------------------------------------
(* Files.  Reading one is asynchronous, nothing keeps a second from being  *)
(* read meanwhile, and each goes on from the recipients it started with.   *)
(* The message of an error, which a timer takes away, is left out.          *)

SetInputMode ==
  /\ focus = "none"
  /\ inputMode' = IF inputMode = "csv" THEN "manual" ELSE "csv"
  /\ isLoading' = FALSE
  /\ UNCHANGED <<fieldVars, focus, inputValue, chipVars, uploads, config>>

\* The cells that are not empty, or an error: NoValue is a file that cannot be
\* read or is no such file.
parseEmailCsv(file) ==
  LET emails == filter(file, Texts \ {Empty})
  IN IF file = NoValue \/ emails = <<>> THEN NoValue ELSE emails

handleCsvFile(file) ==
  /\ inputMode = "csv" /\ Len(uploads) < MaxUploads
  /\ uploads' = Append(uploads, [value |-> recipients, file |-> file])
  /\ isLoading' = TRUE
  /\ UNCHANGED <<fieldVars, focus, inputValue, chipVars, inputMode, config>>

\* The chip that was edited is gone with its recipient.
CsvDone(i) ==
  LET u == uploads[i]
      emails == parseEmailCsv(u.file)
  IN /\ recipients' = IF emails = NoValue THEN recipients ELSE u.value \o emails
     /\ Fits
     /\ uploads' = RemoveAt(uploads, i)
     /\ isLoading' = FALSE
     /\ IF focus = "chip" /\ ~Contains(recipients', chip)
        THEN focus' = "none" /\ chip' = NoValue
        ELSE UNCHANGED <<focus, chip>>
     /\ editValue' = KeptChips
     /\ UNCHANGED <<subject, message, inputValue, inputMode, config>>

-----------------------------------------------------------------------------
(* The other fields, and saving.                                           *)

TypeSubject(n) ==
  /\ focus = "none"
  /\ subject' = n
  /\ UNCHANGED <<recipients, message, focus, inputValue, chipVars, csvVars, config>>

TypeMessage(n) ==
  /\ focus = "none"
  /\ message' = n
  /\ UNCHANGED <<recipients, subject, focus, inputValue, chipVars, csvVars, config>>

MAX_SUBJECT_CHAR_COUNT == 100
MAX_MESSAGE_CHAR_COUNT == 2500

\* The transformation of the schema: the addresses among the texts.
Transform(texts) ==
  filter([i \in DOMAIN texts |-> parseEmail[texts[i]]], Texts)

emailFormSchema ==
  /\ Transform(recipients) # <<>>
  /\ subject \in 1 .. MAX_SUBJECT_CHAR_COUNT
  /\ message \in 1 .. MAX_MESSAGE_CHAR_COUNT

onSubmit ==
  /\ focus = "none"
  /\ emailFormSchema
  /\ config' = [recipients |-> Transform(recipients), subject |-> subject, message |-> message]
  /\ UNCHANGED <<fieldVars, focus, inputValue, chipVars, csvVars>>

handleReset ==
  /\ focus = "none"
  /\ recipients' = <<>> /\ subject' = 0 /\ message' = 0
  /\ editValue' = KeptChips
  /\ UNCHANGED <<focus, inputValue, chip, csvVars, config>>

\* Selecting the node again: a file still being read writes to the old form.
Reopen ==
  /\ focus = "none"
  /\ IF config = NoValue
     THEN recipients' = <<>> /\ subject' = 0 /\ message' = 0
     ELSE recipients' = config.recipients /\ subject' = config.subject /\ message' = config.message
  /\ inputValue' = Empty /\ editValue' = NewChips
  /\ inputMode' = "manual" /\ uploads' = <<>> /\ isLoading' = FALSE
  /\ UNCHANGED <<focus, chip, config>>

-----------------------------------------------------------------------------
Init ==
  /\ recipients = <<>> /\ subject = 0 /\ message = 0
  /\ focus = "none" /\ inputValue = Empty /\ chip = NoValue /\ editValue = NewChips
  /\ inputMode = "manual" /\ uploads = <<>> /\ isLoading = FALSE
  /\ config = NoValue

Next ==
  \/ FocusInput \/ handleKeyDown \/ handleBlur
  \/ \E t \in Texts : Type(t) \/ TypeInChip(t) \/ handleEdit(t) \/ handleRemove(t)
  \/ \E p \in Pastes : handlePaste(p)
  \/ handleSave \/ Escape
  \/ SetInputMode
  \/ \E f \in Files \cup {NoValue} : handleCsvFile(f)
  \/ \E i \in 1 .. Len(uploads) : CsvDone(i)
  \/ \E n \in Lengths : TypeSubject(n) \/ TypeMessage(n)
  \/ onSubmit \/ handleReset \/ Reopen

Spec == Init /\ [][Next]_vars

-----------------------------------------------------------------------------
(* Properties.                                                             *)

\* Whatever was typed, pasted, edited or read, what is saved is a list of
\* addresses in normal form: opened and saved again it stays as it is.
OnlyAddressesAreSaved ==
  config # NoValue =>
    /\ config.recipients # <<>>
    /\ \A i \in DOMAIN config.recipients : parseEmail[config.recipients[i]] = config.recipients[i]

\* No text is left in the input while something else is done: what is typed
\* when "Save" is pressed is among what is saved.
NothingLeftTyped == focus # "input" => inputValue = Empty

=============================================================================
