------------------------------- MODULE ShellEnv -------------------------------
(***************************************************************************)
(* The variables of the shell, userspace/shell.c: a table in memory that   *)
(* every change writes to the file /env, and that a new shell reads back.  *)
(* The shell is started again whenever a program ends in exec of the       *)
(* shell, and by a reboot or a power failure.  A name is a model value     *)
(* with a length; a value is told from another by its length only.         *)
(***************************************************************************)
EXTENDS Integers, SequencesExt

CONSTANTS EnvMax,     \* ENV_MAX
          KeyMax,     \* ENV_KEY_MAX
          ValMax,     \* ENV_VAL_MAX
          Keys,       \* names that export stores as they are
          KeyLen,     \* their lengths
          LongKeys,   \* names that export cuts, as they are typed
          Vals,       \* values as they are typed
          Empty,      \* the empty name
          CutKey,     \* the first KeyMax - 1 characters of every long name
          NoFile

Entries == [key : Keys, val : 0 .. ValMax - 1]

ASSUME EnvAssumption == /\ EnvMax \in Nat \ {0} /\ KeyMax \in Nat \ {0}
                        /\ ValMax \in Nat \ {0} /\ Vals \subseteq Nat
                        /\ KeyLen \in [Keys -> 0 .. KeyMax - 1]
                        /\ CutKey \in Keys /\ Empty \in Keys
                        /\ NoFile \notin Seq(Entries)

(* The buffer of env_save is as large as the table, less two characters.   *)
Room == EnvMax * (KeyMax + ValMax) - 2

VARIABLES env,   \* env_keys and env_vals, up to env_count
          file,  \* the lines of /env
          sync   \* history: the last env_save has worked

envVars == <<env, file, sync>>

Names == LongKeys \cup Keys   \* what can be typed

(* What the first n entries take: a name, an equals sign, a value and a    *)
(* newline each.                                                           *)
Used(e) == LET u[n \in 0 .. Len(e)] ==
                 IF n = 0 THEN 0 ELSE u[n - 1] + KeyLen[e[n].key] + 1 + e[n].val + 1
           IN  u
(* env_save: entries as long as they fit.                                  *)
Written(e) == LET k == CHOOSE j \in 0 .. Len(e) :
                         /\ Used(e)[j] <= Room
                         /\ j = Len(e) \/ Used(e)[j + 1] > Room
              IN  SubSeq(e, 1, k)
(* The lines with a name before the equals sign.                           *)
Named(f) == LET g[n \in 0 .. Len(f)] ==
                  IF n = 0 THEN <<>>
                  ELSE IF f[n].key = Empty THEN g[n - 1] ELSE Append(g[n - 1], f[n])
            IN  g[Len(f)]
(* env_load: as many of them as the table holds.                           *)
Parsed(f) == IF f = NoFile THEN <<>>
             ELSE SubSeq(Named(f), 1, Min({Len(Named(f)), EnvMax}))

EnvInit == env = <<>> /\ file = NoFile /\ sync = TRUE

(* env_save, whose result nobody looks at: without room on the disk, or    *)
(* when the power fails, the old file is gone already.                     *)
Save(e) == /\ env' = e
           /\ \/ file' = Written(e) /\ sync' = TRUE
              \/ file' \in {NoFile, <<>>} /\ sync' = FALSE

(* What strncpy and the loop of cmd_export leave of a value and of a name. *)
Stored(k) == IF k \in LongKeys THEN CutKey ELSE k
Cut(v) == Min({v, ValMax - 1})
(* a mutant: the last entry is not looked at.                              *)
PlacesButLast(k) == {i \in 1 .. Len(env) - 1 : env[i].key = k}
Places(k) == {i \in DOMAIN env : env[i].key = k}

(* cmd_export and env_set.                                                 *)
Change(k, v) ==
  \E i \in Places(Stored(k)) : /\ \A j \in Places(Stored(k)) : i <= j
                               /\ Save([env EXCEPT ![i].val = Cut(v)])
New(k, v) ==
  /\ Places(Stored(k)) = {} /\ Len(env) < EnvMax
  /\ Save(Append(env, [key |-> Stored(k), val |-> Cut(v)]))

(* a mutant: the file is left as it is.                                    *)
UnsetUnsaved(k) ==
  \E i \in Places(k) : env' = RemoveAt(env, i) /\ UNCHANGED <<file, sync>>
(* env_unset, which gets the name as it was typed.                         *)
Unset(k) ==
  \E i \in Places(k) : /\ \A j \in Places(k) : i <= j
                       /\ Save(RemoveAt(env, i))

(* main of a new shell: env_load.                                          *)
Restart == env' = Parsed(file) /\ sync' = TRUE /\ UNCHANGED file

(* unset without a name is refused.                                        *)
EnvNext == \/ \E k \in Names, v \in Vals : Change(k, v) \/ New(k, v)
           \/ \E k \in Names \ {Empty} : Unset(k)
           \/ Restart

EnvSpec == EnvInit /\ [][EnvNext]_envVars
-----------------------------------------------------------------------------
(* The type of the state; the table never outgrows ENV_MAX.                *)
EnvTypeOK ==
  /\ env \in Seq(Entries) /\ Len(env) <= EnvMax
  /\ file = NoFile \/ file \in Seq(Entries)

(* No name has two entries, whatever was cut, removed and read back: the   *)
(* second would never be found.                                            *)
Unique(e) == \A i, j \in DOMAIN e : e[i].key = e[j].key => i = j

(* The table stays within its bounds, and no entry of it is hidden.        *)
EnvInv == EnvTypeOK /\ Unique(env)

(* A new shell finds the variables of the old one, in their order, when    *)
(* the last save worked; except for an empty name, and for the last entry  *)
(* of a full table with no more than one character to spare in all of it.  *)
Kept(e) == Named(IF Len(e) = EnvMax /\ Used(e)[Len(e)] > Room THEN Front(e) ELSE e)
RestartKeeps == sync => Parsed(file) = Kept(env)
=============================================================================
