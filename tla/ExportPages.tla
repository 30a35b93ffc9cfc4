----------------------------- MODULE ExportPages -----------------------------
(***************************************************************************)
(* Taking private keys out of the app: the page that writes many keys to   *)
(* one file (components/keys/ExportKeysPage.tsx) and the page that copies  *)
(* one (ExportPrivateKeyPage.tsx, lib/keys/exporters.ts).  OpenPGP keys    *)
(* are reached through the key session; a CRX key is opened for the page,  *)
(* which owns the handle and has to close it.                              *)
(*                                                                         *)
(* What a handler sees (`drawn`) is the last render's, and the ref that    *)
(* the clean-up reads is set by the effect of that render.  A click is     *)
(* rendered before the next one; what an unlock, a timer or an export's    *)
(* end set is rendered later (`Draw`).  An export calls WASM only, which   *)
(* answers within the click.                                               *)
(***************************************************************************)
EXTENDS Integers

CONSTANTS
    PgpIds, CrxIds,          \* keys by kind
    ByPasskeyIds,            \* those opened by a ceremony, not by a password
    NoId,
    MaxOpens                 \* bound: CRX keys opened

ASSUME ExportConstants ==
    /\ ByPasskeyIds \subseteq PgpIds \union CrxIds /\ PgpIds \intersect CrxIds = {}
    /\ NoId \notin PgpIds \union CrxIds /\ MaxOpens \in Nat

VARIABLES
    asked,                   \* the page: [kind, keys, contacts]
    visible,                 \* "open", "closing" (it slides out), "gone"
    pane,                    \* the step: "unlock" or "export"
    session,                 \* OpenPGP keys the key session holds
    tracked,                 \* crxHandles: [key, handle]
    drawn,                   \* what the last render saw: [pgp, crx]
    live,                    \* CRX handles open in WASM: [key, handle]
    opened,                  \* how many were opened
    opening,                 \* the key whose unlock is in flight
    phrase,                  \* the export passphrase: "none", "short", "valid"
    word,                    \* the confirmation word has been typed
    written,                 \* the last file or clipboard
    \* History, read by no action.
    hasty                    \* something happened between an unlock and its render

exportVars == <<asked, visible, pane, session, tracked, drawn, live, opened, opening,
                phrase, word, written, hasty>>

Nothing == [sealed |-> {}, plain |-> {}, under |-> "none", confirmed |-> FALSE]

Pages ==
    {[kind |-> "many", keys |-> keys, contacts |-> contacts] :
        keys \in SUBSET (PgpIds \union CrxIds), contacts \in BOOLEAN}
    \union {[kind |-> "one", keys |-> {key}, contacts |-> FALSE] : key \in PgpIds \union CrxIds}

KeysOf(entries) == {entry.key : entry \in entries}
Unlocked == (session \intersect asked.keys) \union KeysOf(tracked)
ShownUnlocked == drawn.pgp \union KeysOf(drawn.crx)
Gate ==
    \/ asked.kind = "many" /\ pane = "unlock"
    \/ asked.kind = "one" /\ asked.keys \subseteq CrxIds /\ drawn.crx = {}

ExportInit ==
    /\ asked \in Pages
    /\ session \in SUBSET PgpIds
    /\ visible = "open" /\ pane = "unlock" /\ tracked = {} /\ live = {} /\ opened = 0
    /\ drawn = [pgp |-> session \intersect asked.keys, crx |-> {}]
    /\ opening = NoId /\ phrase = "none" /\ word = FALSE /\ written = Nothing /\ hasty = FALSE

---------------------------------------------------------------------------
(* Rendering and closing.                                                  *)

\* A render and its effects; the step moves on when nothing is left to unlock.
Fresh == [pgp |-> session \intersect asked.keys, crx |-> tracked]
RenderedAt(p) ==
    /\ drawn' = Fresh
    /\ pane' = IF asked.kind = "many" /\ asked.keys \subseteq Unlocked THEN "export" ELSE p

Draw ==
    /\ visible # "gone"
    /\ RenderedAt(pane)
    /\ <<drawn, pane>>' # <<drawn, pane>>
    /\ UNCHANGED <<asked, visible, session, tracked, live, opened, opening, phrase, word,
                   written, hasty>>

\* Back, Escape or the backdrop; a lock of the vault takes the page away.
Dismiss ==
    /\ visible = "open"
    /\ visible' = "closing" /\ RenderedAt(pane)
    /\ UNCHANGED <<asked, session, tracked, live, opened, opening, phrase, word, written, hasty>>

\* The parent takes the page out.  The clean-up closes what the ref holds.
Unmount ==
    /\ visible = "closing"
    /\ visible' = "gone"
    /\ live' = live \ drawn.crx
    /\ hasty' = (hasty \/ tracked # drawn.crx)
    /\ UNCHANGED <<asked, pane, session, tracked, drawn, opened, opening, phrase, word, written>>

\* The session's timer.
LockKeys ==
    /\ session # {}
    /\ session' = {}
    /\ UNCHANGED <<asked, visible, pane, tracked, drawn, live, opened, opening, phrase, word,
                   written, hasty>>

---------------------------------------------------------------------------
(* Unlocking.                                                              *)

\* A passkey row keeps its button disabled until the render; Enter in a password
\* field is only held back by the guard.
BeginUnlock(key) ==
    /\ visible # "gone" /\ Gate /\ opening = NoId
    /\ key \in asked.keys \ ShownUnlocked
    /\ key \in ByPasskeyIds => key \notin Unlocked
    /\ key \in CrxIds => opened < MaxOpens
    /\ opening' = key /\ RenderedAt(pane)
    /\ hasty' = (hasty \/ key \in KeysOf(tracked))
    /\ UNCHANGED <<asked, visible, session, tracked, live, opened, phrase, word, written>>

PgpUnlocked ==
    /\ opening \in PgpIds
    /\ session' = session \union {opening} /\ opening' = NoId
    /\ UNCHANGED <<asked, visible, pane, tracked, drawn, live, opened, phrase, word, written, hasty>>

\* A handle that comes after the page is gone is closed at once.
CrxUnlocked ==
    /\ opening \in CrxIds /\ opened < MaxOpens
    /\ opened' = opened + 1 /\ opening' = NoId
    /\ LET new == [key |-> opening, handle |-> opened + 1]
           others == {entry \in tracked : entry.key # opening}
       IN IF visible = "gone" THEN UNCHANGED <<tracked, live>>
          ELSE tracked' = others \union {new} /\ live' = live \union {new}
    /\ UNCHANGED <<asked, visible, pane, session, drawn, phrase, word, written, hasty>>

UnlockFails ==
    /\ opening # NoId
    /\ opening' = NoId
    /\ UNCHANGED <<asked, visible, pane, session, tracked, drawn, live, opened, phrase, word,
                   written, hasty>>

SkipLocked ==
    /\ visible # "gone" /\ asked.kind = "many" /\ pane = "unlock"
    /\ RenderedAt("export")
    /\ UNCHANGED <<asked, visible, session, tracked, live, opened, opening, phrase, word,
                   written, hasty>>

GoBackToUnlock ==
    /\ visible # "gone" /\ asked.kind = "many" /\ pane = "export"
    /\ ~(asked.keys \subseteq ShownUnlocked)
    /\ RenderedAt("unlock")
    /\ UNCHANGED <<asked, visible, session, tracked, live, opened, opening, phrase, word,
                   written, hasty>>

---------------------------------------------------------------------------
(* Exporting.                                                              *)

NeedsPhrase == asked.kind = "one" \/ ShownUnlocked # {}
HasPgpPrivate == asked.kind = "one" \/ drawn.pgp # {}

TypePhrase(p) ==
    /\ visible # "gone" /\ ~Gate /\ NeedsPhrase
    /\ phrase' = p /\ phrase' # phrase /\ RenderedAt(pane)
    /\ UNCHANGED <<asked, visible, session, tracked, live, opened, opening, word, written, hasty>>

TypeWord ==
    /\ visible # "gone" /\ ~Gate /\ HasPgpPrivate /\ ~word
    /\ word' = TRUE /\ RenderedAt(pane)
    /\ UNCHANGED <<asked, visible, session, tracked, live, opened, opening, phrase, written, hasty>>

\* The session's keys as they are at the click, the page's as they were drawn.
Reached == session \intersect asked.keys
HandlesAnswer == drawn.crx \subseteq live
UnlockedSince == ~(Reached \subseteq drawn.pgp) \/ tracked # drawn.crx

\* A file is followed by resetAndClose; the clipboard leaves the page as it is.
ResetAndClose ==
    /\ visible' = "closing" /\ tracked' = {} /\ live' = live \ drawn.crx
    /\ UNCHANGED <<phrase, word>>
StaysOpen(p, w) ==
    /\ phrase' = p /\ word' = w
    /\ UNCHANGED <<visible, tracked, live>>
\* The one key has to be there still.
TheKeyAnswers == asked.keys \subseteq Reached \union KeysOf(drawn.crx)

ExportEncrypted ==
    /\ visible # "gone" /\ ~Gate
    /\ IF NeedsPhrase THEN phrase = "valid" ELSE asked.contacts
    /\ HandlesAnswer
    /\ written' = [Nothing EXCEPT !.sealed = Reached \union KeysOf(drawn.crx), !.under = phrase]
    /\ \/ asked.kind = "many" /\ ResetAndClose
       \/ asked.kind = "one" /\ TheKeyAnswers /\ StaysOpen("none", word)
    /\ hasty' = (hasty \/ UnlockedSince) /\ RenderedAt(pane)
    /\ UNCHANGED <<asked, session, opened, opening>>

\* CRX keys are left out of a plaintext file; their own page has the PEM.
ExportPlaintext ==
    /\ visible # "gone" /\ ~Gate /\ HasPgpPrivate /\ word
    /\ \/ /\ asked.kind = "many" /\ ResetAndClose
          /\ written' = [Nothing EXCEPT !.plain = Reached, !.confirmed = word]
       \/ /\ asked.kind = "one" /\ HandlesAnswer /\ TheKeyAnswers /\ StaysOpen(phrase, FALSE)
          /\ written' = [Nothing EXCEPT !.plain = asked.keys, !.confirmed = word]
    /\ hasty' = (hasty \/ UnlockedSince) /\ RenderedAt(pane)
    /\ UNCHANGED <<asked, session, opened, opening>>

ExportNext ==
    \/ Draw \/ Dismiss \/ Unmount \/ LockKeys
    \/ \E key \in PgpIds \union CrxIds : BeginUnlock(key)
    \/ PgpUnlocked \/ CrxUnlocked \/ UnlockFails \/ SkipLocked \/ GoBackToUnlock
    \/ \E p \in {"short", "valid"} : TypePhrase(p)
    \/ TypeWord \/ ExportEncrypted \/ ExportPlaintext

ExportSpec == ExportInit /\ [][ExportNext]_exportVars

---------------------------------------------------------------------------
(* Properties                                                              *)

(* A CRX key that a page opened is in the page's hands while the page is there  *)
(* and is closed when it goes, also when the unlock outlives it: "a late handle *)
(* must be dropped, not left decrypted in WASM untracked".  Not if it was opened*)
(* twice between two renders, or came between the last render and the unmount.  *)
HandlesAreClosed ==
    hasty \/ /\ live \subseteq tracked \union drawn.crx
             /\ visible = "gone" => live = {}

(* A private key leaves the app sealed under a passphrase that was checked, or  *)
(* in the clear after the word was typed; of a file, a CRX key only sealed.  Not*)
(* if a key was unlocked between the last render and a click that asks for none.*)
ExportsAreSealed ==
    /\ written.sealed = {} \/ written.under = "valid" \/ hasty
    /\ written.plain = {} \/ written.confirmed
    /\ asked.kind = "many" => written.plain \intersect CrxIds = {}

(* What is exported was chosen, and a handle answers for the key it was opened  *)
(* for: no key is in a file that the page was not asked for.                    *)
ExportsAreOfTheChosen == written.sealed \union written.plain \subseteq asked.keys

ExportsAreKept == HandlesAreClosed /\ ExportsAreSealed /\ ExportsAreOfTheChosen
=============================================================================
