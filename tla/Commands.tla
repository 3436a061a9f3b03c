----------------------------- MODULE Commands ------------------------------
(***************************************************************************)
(* The CLI commands that touch the store or the daemon (internal/cli/      *)
(* root.go), as data: what a command asks the daemon for when one answers, *)
(* and what it does to the store file itself when none does.  Control      *)
(* interprets them.                                                        *)
(*                                                                         *)
(*   rpcs   the RPCs, in order; <<>> for a command that never dials        *)
(*   steps  the store transactions of the offline path, in order; <<>> for *)
(*          a command that only works against a daemon                     *)
(*   pass   when a passphrase is required before anything is done:         *)
(*          "never", "always", or only on the "offline" path               *)
(*   spawn  the command ends by starting a detached daemon                 *)
(*                                                                         *)
(* What is printed is left out, and so are the arguments: the commands     *)
(* that append a signed event differ only in the event, except that a      *)
(* follow may wait for the zen it follows.                                 *)
(***************************************************************************)
EXTENDS Sequences

Cmd(rpcs, steps, pass) ==
    [rpcs |-> rpcs, steps |-> steps, pass |-> pass, spawn |-> FALSE]

\* Appends one signed event, through the daemon or offline.
Signing == Cmd(<<"Sign">>, <<"SignAndAppend">>, "offline")
\* Writes a local mark, which takes no signature.
Marking == Cmd(<<"Mark">>, <<"Mark">>, "never")

initCmd   == Cmd(<<>>, <<"InitIdentity">>, "always")
whoamiCmd == Cmd(<<"Whoami">>, <<"Identity">>, "never")

postCmd     == Signing
likeCmd     == Signing
followCmd   == Cmd(<<"Follow">>, <<"SignAndAppend">>, "offline")
unfollowCmd == Signing
profileCmd  == Signing
detailCmd   == Signing

feedCmd      == Cmd(<<"FeedPage">>, <<"Read">>, "never")
followsCmd   == Cmd(<<"Read">>, <<"Read">>, "never")
followersCmd == Cmd(<<"Read">>, <<"Read">>, "never")

zensVerifyCmd   == Marking
zensUnverifyCmd == Marking
zensPinCmd      == Marking
zensUnpinCmd    == Marking

keyExportCmd    == Cmd(<<>>, <<"EncryptedKey">>, "never")
keyImportCmd    == Cmd(<<>>, <<"PutEncryptedKey", "SetIdentity">>, "always")
backupExportCmd == Cmd(<<>>, <<"EncryptedKey", "SealTransportKey">>, "never")
backupImportCmd == Cmd(<<>>, <<"ImportBackup", "PutTransportKey">>, "never")

daemonUnlockCmd == Cmd(<<"Unlock">>, <<>>, "always")
daemonLockCmd   == Cmd(<<"Lock">>, <<>>, "never")
daemonStopCmd   == Cmd(<<"Stop">>, <<>>, "never")
daemonStatusCmd == Cmd(<<"Read">>, <<>>, "never")
zensListCmd     == Cmd(<<"Read">>, <<>>, "never")
syncCmd         == Cmd(<<"Read">>, <<>>, "never")
rotateKeyCmd    == Cmd(<<"RotateKey">>, <<>>, "never")
\* tui: who am I, unlock if status says locked, then a subscription.
tuiCmd          == Cmd(<<"Whoami", "UnlockIfLocked", "Subscribe">>, <<>>, "never")
\* Restart launches a daemon even when none was running.
daemonRestartCmd == [daemonStopCmd EXCEPT !.spawn = TRUE]

Commands ==
    {initCmd, whoamiCmd, postCmd, likeCmd, followCmd, unfollowCmd, profileCmd,
     detailCmd, feedCmd, followsCmd, followersCmd, zensVerifyCmd, zensUnverifyCmd,
     zensPinCmd, zensUnpinCmd, keyExportCmd, keyImportCmd, backupExportCmd,
     backupImportCmd, daemonUnlockCmd, daemonLockCmd, daemonStopCmd,
     daemonStatusCmd, zensListCmd, syncCmd, rotateKeyCmd, tuiCmd, daemonRestartCmd}

\* Whether the passphrase is used at all.
UsesPass(cmd) ==
    \/ cmd.pass # "never"
    \/ cmd \in {backupExportCmd, backupImportCmd, tuiCmd}
============================================================================
