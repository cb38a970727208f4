---------------------------- MODULE MCAppPrepare -----------------------------
(* Disks and names for TLC: an app or a patch in a folder that was extracted,  *)
(* beside the installed app, in it, or around it.                            *)
EXTENDS AppPrepare

MCX == <<"data", "x">>
MCDl == <<"data", "x", "dl">>
MCApp == <<"data", "homebrew", "T1-app">>

(* A disk of these files, and of the folders they need. *)
MCDisk(files, dirs, symlinks) ==
  [p \in files \cup symlinks \cup dirs
           \cup UNION {Prefixes(Front(f)) : f \in files \cup dirs \cup symlinks} |->
     [kind |-> IF p \in files THEN "file" ELSE IF p \in symlinks THEN "link" ELSE "dir",
      origin |-> p, open |-> FALSE,
      title |-> IF p \in files /\ Last(p) = "param.json" THEN "T1" ELSE ""]]
MCGame(at) == {at \o <<"eboot.bin">>, at \o <<"param.json">>, at \o <<"d", "f">>}
MCPatch(at) == {at \o <<"eboot.bin">>, at \o <<"d", "f">>}

MCDisks ==
  {MCDisk(MCGame(MCDl \o <<"game">>) \cup {MCDl \o <<"readme">>} \cup more, {Homebrew}, {}) :
     more \in {{}, MCGame(MCApp), {MCApp}, MCGame(MCDl \o <<"T1-app">>), MCPatch(MCDl)}}
  \cup
  {MCDisk(MCGame(MCDl \o <<"game">>) \cup {MCDl \o <<"readme">>} \cup more, {}, {}) :
     more \in {{}, MCGame(MCX \o <<"T1-app">>)}}
  \cup
  {MCDisk(MCPatch(MCDl \o <<"T1-fix">>) \cup {MCDl \o <<"readme">>} \cup MCGame(MCApp), {}, {}),
   MCDisk(MCGame(MCApp) \cup MCPatch(MCApp \o <<"fix">>), {}, {}),
   MCDisk(MCGame(MCX \o <<"T1-app", "in">>) \cup {MCX \o <<"T1-app", "in", "in">>}, {}, {}),
   MCDisk(MCGame(Homebrew \o <<"game">>) \cup MCGame(MCApp), {}, {Homebrew \o <<"game", "l">>}),
   MCDisk(MCGame(MCDl \o <<"T1-app">>) \cup {MCDl \o <<"readme">>}, {}, {}),
   MCDisk(MCGame(MCDl), {Homebrew}, {})}

MCScans == {MCX, MCDl, Homebrew, MCApp, MCApp \o <<"fix">>, MCX \o <<"T1-app">>}

MCTitleIn == [n \in {"data", "x", "dl", "homebrew", "game", "in", "d", "fix", "T1-fix", "T1-app",
                     "eboot.bin", "param.json", "f", "l", "readme", BackupDir, "job", "inline"} |->
                IF n \in {"T1-app", "T1-fix"} THEN "T1" ELSE ""]
MCAppName == [t \in {"T1"} |-> "T1-app"]

(* A patch extracted into the installed app, which has a folder of the name of *)
(* the one it was extracted to.                                              *)
MCInside == {MCDisk(MCGame(MCApp) \cup {MCApp \o <<"fix", "in", "eboot.bin">>,
                                       MCApp \o <<"fix", "in", "fix", "f">>}, {}, {})}
MCInsideScans == {MCApp \o <<"fix">>}
=============================================================================
