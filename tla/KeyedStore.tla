----------------------------- MODULE KeyedStore -----------------------------
(* What every file and every index promises, whatever its pages do: a set of
   entries <<key, content>>. The key of a file without keys is the address. *)

VARIABLE stored

PutEntry(entry) == stored' = stored \cup {entry}

TakeEntry(entry) == stored' = stored \ {entry}

TakeKey(key) == stored' = {entry \in stored : entry[1] # key}

ReplaceEntry(old, new) == stored' = (stored \ {old}) \cup {new}

=============================================================================
