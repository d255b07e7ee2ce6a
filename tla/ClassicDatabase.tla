--------------------------- MODULE ClassicDatabase ---------------------------
(* CClassicDatabase: data.db of an item behind ONE connection that every     *)
(* thread of the item shares.  A statement runs under m_lock and belongs to  *)
(* whatever transaction is open on the connection, also one that another     *)
(* thread began: CDatabaseSaver gives the lock away in the middle of its     *)
(* transaction.  What is not committed is gone after a crash.                *)
EXTENDS Integers

CONSTANTS
  Addrs,    \* the addresses modules, references and comments are at
  NoInfo    \* no description of the module in tbl_metainfo

VARIABLES
  conn,   \* the tables as the connection sees them
  disk,   \* the tables a new connection would see
  tx      \* a transaction is open on the connection

dbVars == <<conn, disk, tx>>

(* rows: tbl_modules, address -> size, 0 for none; meta: the description of  *)
(* the module in tbl_metainfo; names: its other rows there (exports, imports,  *)
(* private symbols); refs: tbl_references; comments: tbl_comments.           *)
EmptyDb == [rows |-> [a \in Addrs |-> 0], meta |-> [a \in Addrs |-> NoInfo],
            names |-> {}, refs |-> {}, comments |-> {}]

DbInit == conn = EmptyDb /\ disk = EmptyDb /\ tx = FALSE

(* One statement: it is on the disk at once unless a transaction is open.    *)
Execute(tables) == /\ conn' = tables
                   /\ disk' = IF tx THEN disk ELSE tables
                   /\ UNCHANGED tx

(* BEGIN TRANSACTION and the statements up to where the lock is given away.  *)
BeginTransaction(tables) == /\ ~tx
                            /\ tx' = TRUE
                            /\ conn' = tables
                            /\ UNCHANGED disk

CommitTransaction(tables) == /\ tx
                             /\ conn' = tables
                             /\ disk' = tables
                             /\ tx' = FALSE

(* RollbackTransactionSilent: everything since BEGIN goes, whoever wrote it. *)
RollbackTransaction == /\ tx
                       /\ conn' = disk
                       /\ tx' = FALSE
                       /\ UNCHANGED disk

(* A new connection after the end of the Orthia process.                     *)
Reconnect == conn' = disk /\ tx' = FALSE /\ UNCHANGED disk

IsModuleExists(address) == conn.rows[address] # 0

(* DELETE FROM tbl_modules; the metainfo goes with the row (ON DELETE        *)
(* CASCADE), comments belong to addresses and stay.                          *)
DeleteRow(tables, address) ==
  [tables EXCEPT !.rows[address] = 0,
                 !.meta[address] = NoInfo,
                 !.names = {n \in @ : n.module # address}]

(* INSERT OR REPLACE INTO tbl_modules: a row in the way is deleted first.    *)
InsertModule(tables, address, size) ==
  [DeleteRow(tables, address) EXCEPT !.rows[address] = size]

\* Mutant: the foreign key is not enforced.
InsertMetaInfoLoose(tables, address, info) == [tables EXCEPT !.meta[address] = info]

(* InsertMetaInfo with checkDuplicates: UPDATE, or INSERT when there was no  *)
(* row; the foreign key refuses one without its module.                      *)
InsertMetaInfo(tables, address, info) ==
  [tables EXCEPT !.meta[address] = IF tables.rows[address] # 0 THEN info ELSE @]

(* The references made from inside the range, up to its last byte.           *)
RefsFrom(refs, address, size) == {r \in refs : r.from \in address..(address + size - 1)}

DeleteRefs(tables, address) ==
  [tables EXCEPT !.refs = @ \ RefsFrom(@, address, tables.rows[address])]
=============================================================================
