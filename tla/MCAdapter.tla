------------------------------ MODULE MCAdapter ------------------------------
(* A recipe of three files in two folders, an adapter call, and a response *)
(* of two blocks.                                                          *)
EXTENDS Adapter, TLC

CONSTANTS toml, adapter, cache, root, scripts

MCFiles     == {toml, adapter, cache}
MCFolders   == {root, scripts}
MCFolderOf  == (toml :> root) @@ (cache :> root) @@ (adapter :> scripts)
MCTransient == {cache}
MCDeclared  == {adapter}
=============================================================================
