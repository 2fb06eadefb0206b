# Verification of stwo-starknet-verifier

TLA+ models of this repository, TLC instances that check them, and theorems
about them that TLAPS proves. Paths are relative to `src/`.

Contents: [1 the system](#1-the-system) · [2 the modules](#2-the-modules) ·
[3 the pool](#3-the-pool) · [4 the send client](#4-the-send-client) ·
[5 reading the pool](#5-reading-the-pool) · [6 fees](#6-fees) ·
[7 the app lock](#7-the-app-lock) · [8 profiles](#8-profiles) ·
[9 setup](#9-setup) · [10 the desktop program](#10-the-desktop-program) ·
[11 the verifier router](#11-the-verifier-router) ·
[12 the proofs](#12-what-is-proved) ·
[13 disagreements](#13-where-the-code-and-its-comments-disagree) ·
[14 not modelled](#14-what-is-not-modelled) · [15 the plan](#15-plan)

To run one: `tlc -workers 2 -config MCPool_board.cfg MCPoolBoard.tla`; to prove one:
`tlapm ZkmsgPoolV4Proofs.tla`. `PROJECT.json` lists every run, the source lines
every definition stands for, and the hazards the properties are for.

## 1 The system

The repository has two lanes. One verifies Stwo proofs on Starknet and records
the facts they establish; it is a set of Cairo contracts. The other, zkmsg, is
a private messenger built on it: a pool contract that publishes messages from
anonymous members, and a Rust client that proves and publishes them.

### Components

| Component | State it keeps | Operations | Who it talks to |
| --- | --- | --- | --- |
| zkmsg v4 pool (`contracts/zkmsg_pool_v4`) | members tree and its ring of roots, tickets tree and all its roots, spent tickets, spent nullifiers, published envelopes, directory of handles | `register`, `buy_tickets`, `__validate__`, `__execute__`, `send_message` | callers' accounts; STRK token; the sequencer, which runs the pool as the account of every send; the proven statement of `prover.cairo` |
| client: send pipeline (`tools/zkmsg/core/src/virtual_send.rs`, `state.rs`, `sequencer.rs`) | `sends/<id>.json`, `.proof` and `.stale` files | `send`, `prepare`, `prove_and_save`, `publish`, `resume`, `retire` | ticket wallet, chain RPC, prover, gateway |
| client: ticket wallet, quota log (`tickets.rs`, `app.rs`) | `tickets.json`, `quota.json` | `buy_tickets`, `sync_tickets`, `pick`, `release`, `mark_spent`, `settle`, `take_slot` | the send pipeline (through the file), the pool's events |
| client: registry, trees (`registry.rs`, `tree.rs`) | none: rebuilt from events | `sync`, `insert`, `path` | chain RPC |
| client: inbox and crypto (`inbox.rs`, `crypto.rs`) | none | scan, decrypt, encrypt | chain RPC |
| client: vault, keychain, app lock (`vault.rs`, `keychain.rs`, `applock.rs`) | wrapped keys, the attempt counter | unlock, change PIN, wipe on too many attempts | every file of a profile |
| client: profiles, delete, panic wipe (`profiles.rs`, `wipe.rs`) | the profile directories | create, switch, delete, move tickets, wipe | the wallet, the vault |
| client: setup (`setup.rs`, `config.rs`) | checkpoints of the account's deployment | deploy, fund, register | chain RPC, the pool |
| client: chain access (`chain.rs`, `net.rs`, `tor/`) | a connection | RPC calls | the node, the gateway |
| GUI and CLI (`gui/`, `cli/`) | one worker slot for sends, one for other work | buttons | every client part |
| local gateway (`gateway/`) | none | HTTP translation | a front end |
| router and shared fact registry (`contracts/stwo_full_verifier_phases`) | one checkpoint `(tag, hash)` per caller and proof id, staged sections, routes, facts | `stage`, `begin` ... `finalize`, `register_fact`, `add_route`, `freeze_routes` | `scripts/devnet_drive.py`, which sends the calls; the library classes of the machine |
| lane-1 registry, fact binding | staged proofs, one checkpoint, facts | `stage`, `phase 1`, `phase 2`, `is_valid` | consumers |
| full-verifier arithmetic | none | field and polynomial operations | the router |
| retired message stores, provers, bridges, probes | | | |

### How they interact

A *member* has registered a scan key and the commitment of a secret; the pool
appends a leaf to its members tree. Anybody buys *tickets* for a fixed price;
each adds a leaf to the tickets tree. To send, the client picks an unspent
ticket, takes a slot of its quota for the epoch, and proves in a virtual block
that it knows a member's secret and a ticket's secret under roots the pool
knows. The proof yields an L2-to-L1 message whose hash binds every public value
of the send. The client then submits an invoke whose *account is the pool*:
`__validate__` checks fee fields, ticket and proof facts and burns the ticket;
`__execute__` calls `send_message`, which checks again and publishes; the fee
comes out of the pool's balance, which the tickets have filled.

Inside one profile of the client, a send worker and a buy worker share
`tickets.json`, each with a copy of its own in memory; both may be killed at
any moment. They meet the chain through a gateway that may lose a request, take
it and lose the answer, or take it late, and whose nonce is the pool's and so
is contended by every member.

A *driver* verifies a proof by staging its sampled section in the router and then
calling the phases in order. Between two calls the router keeps a tag and a hash
for the caller and proof id; each call brings the state again, which must hash to
that, does a part of the verification and stores the next hash. The last call
registers the fact in the shared registry, which takes facts from listed routes.

### Hard behaviours, and what makes each component correct

* Pool: validate and execute see different block numbers (validate's is rounded
  down) and validate's writes survive a revert of execute. Correct when nothing
  admitted reverts by its own rules, fees never exceed what burnt tickets
  brought in, nothing is published twice, only members with tickets publish,
  and no member gets more than the quota.
* Send pipeline: every step may be the last before a crash, every POST may or
  may not have happened. Correct when a send is published at most once, what is
  retired is never published, and what is pending ends.
* Wallet and quota log: two read-modify-write users of one file, and chain state
  that arrives later. Correct when no secret that was paid for is lost, no
  ticket is used by two sends, no slot is used twice.
* Reading: every read pages all events of a kind from an index that trails the
  state, while blocks are added and the newest is replaced. Correct when what a
  send proves against is the pool's own tree, and the inbox is exact.
* Fees: bounds are computed at one price, checked by the pool, and used at
  another. Correct when the pool takes what the client sends and a price that
  moves a little does not strand it.
* App lock: one attempt counter in the Keychain for all processes; keys wrapped
  one after the other. Correct when no guess is free, the last one wipes, and
  what is sealed opens.
* Profiles, setup: files written one after the other with an interruption in
  between. Correct when no interruption loses what cannot be recovered, pays
  twice, or revives what was destroyed.
* Desktop program: worker threads outlive the window that listens to them.
  Correct when nothing starts twice and what is shown is the profile's own.
* Router and fact registry: one verification is some forty transactions over
  thirteen entry points, each of which brings its sections again; anybody may
  call any of them at any time under any proof id. Correct when a checkpoint stands
  for one proof that passed the phases before, only facts of accepted proofs are
  registered, and nobody can stop a driver that does its part.

## 2 The modules

| Module | Stands for | Extends |
| --- | --- | --- |
| `PoolRules` | `facts.cairo` (epochs), `policy.cairo` (fees): pure operators | |
| `ZkmsgPoolV4` | `pool.cairo`, `prover.cairo`, the protocol's validate-execute-fee sequence | `PoolRules` |
| `SendBoard` | nothing in the code: the abstract promise of the pool | |
| `PoolBoard` | the refinement mapping from the pool to the board | `ZkmsgPoolV4`, instance of `SendBoard` |
| `MCPool`, `MCPoolBoard` | transaction sets for TLC | `ZkmsgPoolV4`, `PoolBoard` |
| `SendClient` | one profile of the client with the pool and gateway it meets | |
| `MCSendClient` | symmetry for TLC | `SendClient` |
| `Reader` | `registry.rs`, `tree.rs`, `inbox.rs`, the reads of `virtual_send.rs` and `app.rs` | |
| `TxPolicy` | `txpolicy.rs` against a gas market and the pool's policy | `PoolRules` |
| `AppLock` | `applock.rs`, `vault.rs`, `keychain.rs` | |
| `Profiles` | `wipe.rs`, `profiles.rs` and the dialogs that call them | |
| `Setup` | `setup.rs`, the wizard, `register` and `migrate_store` of `app.rs` | |
| `GuiSession` | `gui/src/app.rs`, `session.rs`, `worker.rs`, `compose_view.rs`, `send_flow.rs` | |
| `VerifierRules` | `resumable_full.cairo`: which data each check of the verifier is made on, and what accepting a proof in one go means | |
| `VerifierRouter` | `router.cairo`, `machine.cairo`, `oods_chunks.cairo`, `fact_registry.cairo`, the calls of `devnet_drive.py` | `VerifierRules`, instance of `VerifiedFacts` |
| `VerifiedFacts` | the registry as its consumers see it | |
| `MCReader`, `MCTxPolicy`, `MCAppLock`, `MCProfiles`, `MCSetup`, `MCGuiSession`, `MCVerifierRouter` | instances for TLC | their subject |
| `ZkmsgPoolV4Proofs` | theorems on the pool's rules and its behaviours, and that it implements the board | `PoolBoard`, `TLAPS` |
| `AppLockProofs` | theorems on the attempts at the PIN, and on what keys and PIN open | `AppLock`, `TLAPS` |
| `SendClientProofs` | theorems on slots, tickets, secrets and reservations | `SendClient`, `TLAPS` |
| `SetupProofs` | theorems on the funding and the keys of a setup | `Setup`, `TLAPS` |
| `TxPolicyProofs` | theorems on the bounds of what the client submits | `TxPolicy`, `TLAPS` |
| `ProfilesProofs` | theorems on what deleting, moving and wiping keep and take | `Profiles`, `TLAPS` |
| `GuiSessionProofs` | theorems on what the window shows and which workers run beside each other | `GuiSession`, `TLAPS` |
| `VerifierRouterProofs` | the router implements a verifier of whole proofs | `VerifierRouter`, `TLAPS` |

The modules of the client are separate because the code separates them by
files on disk: each takes the others' files as its environment. `SendClient` has
the pool's rules as the client meets them, `TxPolicy` the pool's own operators,
`GuiSession` the outcomes of the workers whose inside the others model.

A definition whose comment begins with *Mutant*, or that stands right above
another with the same name as a prefix, is a changed form of the one
below it, the way a plausible bug would change it. It is never part of a
specification; replacing the definition by it shows that a property can fail.

## 3 The pool

### State and actions

| Variable | In `pool.cairo` |
| --- | --- |
| `users`, `handles` | the maps of the directory: `registered`, `scan_pubkeys`, `m_commits`, `leaf_indices` in one record per caller, and `handles` |
| `members`, `root_history`, `root_history_index` | the members tree, the ring of its last `ROOT_HISTORY_SIZE` roots |
| `tickets`, `known_ticket_roots`, `spent_tickets` | the tickets tree, every root it had, the burnt nullifiers |
| `consumed_envelopes`, `spent_nullifiers`, `messages` | the replay sets; the `MessageSent` events |
| `pending` | the transaction between its validate and its execute |
| `balance`, `fees` | STRK held, STRK charged: kept by the token and the protocol |
| `block_number` | `get_block_info` |

`register` and `buy_tickets` are one action each, as whole calls: an assertion
that fails reverts everything, so it is a guard. An account transaction is two
actions: `validate`, then `execute` or `execute_revert`. Nothing else runs
between them because a sequencer does them back to back in one block. The fee
is any amount up to what the bounds allow. `execute_revert` is always allowed,
since gas limits can stop any execute; `ValidatedNeverReverts` is what shows
the pool's own checks are never the reason.

Hashes are the tuples they hash. A tree root is the number of leaves it covers,
since both trees are append-only; a tree somebody builds off chain has one more
root, `ForeignRoot`, and may hold anything. `Attested` says what the virtual
OS guarantees of proof facts: a real block, and a message that the named
contract's code can emit. When that contract is the pool's prover, there was a
witness for `prove_send`. Epoch, quota and roots are public inputs and may be
claimed at will: it is the pool that must refuse false ones.

### Runs

One run, `pool_board`: three registrations with one secret and key against a ring of
two, so that a root is forgotten; three tickets in batches of two, one bought
twice over; four contents (one of a length that is not allowed); blocks in epochs 0, 1
and 3 with a lag of one and a block (199) whose rounding matters. The transactions are
every combination of true claims, and of an epoch or a quota claimed one too high;
calls changed after they were proved (content, slot, ticket); messages of other
emitters; foreign trees; and a grid of fee fields. It checks

* `ValidatedNeverReverts`, `NoReplay`, `RateLimited`, `PublishedByMembers` of what is
  published, and `ImplementsBoard`: the pool implements `SendBoard`, in which there are
  no proofs and a post is simply allowed or not;
* `TypeOK`, `RootWindow`, `DirectoryConsistent`, `FeesCoveredByTickets` and
  `UnspentTicketsBacked` of what is stored.

Bounds: two or three of everything a rule compares pairwise. `NoReplay` and
`RateLimited` are about two sends and a third beyond the quota; the ring is
shorter than the number of registrations; three tickets are a batch and one
more. `MAX_LEAVES` is 3 (2^20 in the code); a tree that fills up is reached.
`Blocks` stands for the chain's height: the model jumps between the
blocks where epoch or rounding differ. The members share a secret, so that they share
a quota; that different members do not disturb each other is proved (section 12). Deadlock
is not checked, because a bounded chain stops when all tickets are sold and burnt.

## 4 The send client

### State and actions

On disk: `wallet` (`tickets.json`: state per ticket, and the send of a Reserved
one), `quota_log` (`quota.json`), `sends` (status and recorded submission), and
`proofs`. In memory: `pc`, `job` and `copy` for the send worker,
`buy_pc`, `buying`, `buy_copy` for the buy worker. The rest is the chain.

The grain of an action is what happens between two network calls or two writes:
this is where another worker, the chain or a crash can come in. The two copies of
the wallet are explicit because the code keeps them: `prepare` loads the wallet,
goes to the network, and saves *its copy* with the reservation
(`virtual_send.rs:563-651`); `buy_tickets` does the same around the purchase
(`app.rs:338-382`). Releasing or spending a ticket and retiring or finishing the
send are two writes in the code and two actions here.

| Code | Actions |
| --- | --- |
| `prepare` | `prepare`, `prepare_latest`, `take_slot`, `reserve`, `prepare_fails` |
| `prove_and_save` | `prove_and_save`, `prove_fails` |
| `publish` | `settle_hash`, `root_gone`, `record_submission`, `post_taken`, `post_unanswered`, `nonce_rejected`, `post_refused`, `publish_fails` |
| `await_and_finish`, `retire` | `await_acceptance`, `finish`, `retire` |
| `resume` | `resume` |
| `buy_tickets` | `buy_tickets`, `mint`, `submit_purchase`, `purchase_receipt`, `purchase_settled`, `buy_fails` |
| `sync_tickets` | `sync_tickets`, `sync_settled` |
| pool, gateway, network (external) | `purchase_lands`, `include`, `drop`, `late_post`, `foreign_post`, `foreign_gone`, `next_epoch`, `root_ages` |
| the process | `crash` |

Four constants switch parts of the environment on, so that each claim is made
about the environment it is true in: `Crashes`, `LatePosts` (a POST given up on
may arrive later), `SaveFails` (best-effort bookkeeping fails) and `GuiGates`
(the Send button as the GUI gates it; when FALSE, a send waits for the buy worker).

### Runs

* `client_crash` - two sends, two tickets, killed anywhere, any best-effort save
  failing. No slot is used by two proofs (`SlotNeverReused`); the secret of an ordered ticket is on
  disk (`SecretsOnDisk`); what is retired is never published
  (`RetiredNeverLands`). And a fault harms no ticket but its own (`HarmContained`):
  the wallet gives up no ticket that is not burnt and offers none that was not
  bought, whatever happened; and every ticket that no fault fell on belongs to one
  send at a time, stays reserved or spent until that send lets go of it, and is never
  offered burnt. The history variable `hit` says which tickets a fault fell on. It is
  derived in `Next` from what a step does, and no action reads it: a ticket is hit
  when a worker writes its older wallet over another's change (`overwritten`), when
  only one of the two writes that end a reservation is made (`half_ended`), or when
  the gateway takes a POST its send had given up (`taken_late`). Section 13 says
  what each does to the ticket it falls on.
* `client_live` - one send with crashes, late POSTs, other members' nonces and
  failing bookkeeping at once: it lands at most once, and is shown as done only
  if it did (`LandsOnce`); a pending send is published or retired in the end
  (`PendingSendsEnd`).
* `client_busy` - a violation, see section 13.

Bounds: two sends and two tickets are the smallest number in which one send can
take what another has; a quota of two lets both use one epoch. `MaxEpoch` 2 gives
a proof's own epoch, one in which a second proof is made, and one in which all are
stale. `MaxNonce` 2 lets another member take the first nonce and this client's
transaction the next. The liveness run has one send, since no two sends are ever
worked on together and a ticket is all they share. At the bound on nonces the
pool takes no more transactions; by then the last epoch ends every proof,
so the liveness result does not rest on it. `HarmContained` needs none of the four
switches off. `client_crash` has kills and failing saves; instances with
all four on have to be smaller to end within minutes (one send with two
tickets and one nonce, or one of each with two nonces), and two sends that may start
beside a purchase take too long for a run kept with the others. All three were
checked by hand, and the theorem of section 12 has no such bound. Deadlock is not checked, since the user
may stop for good.

### Fairness

`FairSpec` assumes what the code and its user do, not that the network is kind:

* the send and buy workers go on (weak): they are threads that loop with sleeps;
* the user resumes a pending send again and again (strong in `resume(id)`, as
  other work can disable it in between): the program lists pending sends and
  resumes them at the user's wish; nothing in it does so unasked;
* each of the two outcomes of settling a saved hash, building, posting with an
  answer, getting a fresh nonce, seeing the result, and the final rename happens
  if it is possible again and again (strong): a timeout does not strike for ever;
* a transaction in the mempool is included or dropped, and epochs go by (weak).

Nothing says that a send is ever accepted: aged roots, lost races and stale epochs
end it as retired, and that counts as an end.

## 5 Reading the pool

`Reader` is what stands between the chain and a send or the inbox. `chain` is the
pool's event of each block, `index` what the node's event index has of it (it may
trail, and catches up block by block), `wallet` one ticket, `task` the read under
way and `out` what the last one ended with.

| Code | Definitions |
| --- | --- |
| `tree.rs` | `insert`, `node`, `path`, `fold_path`, `tree_root`, `zeros` |
| `chain.rs` paging, `registry.rs`, `tickets.rs` rebuilds | `page`, `next_page`, `from_registrations`, `tickets_from_events` |
| `virtual_send.rs` `prepare`, `pinned_state`, `base_block` | `prepare`, `pinned_registry`, `get_merkle_root`, `pinned_tickets`, `get_ticket_root`, `roots_agree`, `pick`, `prepare_witness`, `release` |
| `app.rs` `resolve_recipient`, `sync_tickets`, `inbox.rs` scan | `resolve_recipient`, `resolved`, `settle_latest`, `scanned`, `open_all` |
| the node and the chain (external) | `grow`, `reorg`, `catch_up`, `rpc_fails` |

One page, one call for a root, or one local step is one action, so the chain moves
between any two. Felts are free terms, so equal roots mean equal trees; the
pool's root is computed as that of a full binary tree, not by the walk `insert`
makes, and the two are compared through the client's own check.

Run `reader`: `PreparedProves` - whatever a prepare ends with proves: the member's
own leaf and the ticket's fold along the witness's paths to the roots the pool had
at the base block, and the message is sealed to keys registered by then.
`RefusalIsTrue` - a prepare that calls the recipient unknown is right about the
chain at that block, although the index it read may trail. (Resolving a handle in
the compose form compares nothing with a root; there a trailing index can say
"not found" of a fresh registration, and no property is claimed.) `InboxExact` - a
scan that ends shows only messages that open, each once and in the pool's order,
and all that the index held when the scan began.

Bounds: trees of four leaves and pages of two over chains of up to five blocks
cross a page boundary, fill three of four leaves and reach three base blocks; one block is
replaced. A block holds at most one event, and only the newest is replaced: a
deeper reorganisation than the ten blocks a base is behind is the chain's own
failure. Rate limits, nonces and slots are `SendClient`'s.

## 6 Fees

`TxPolicy` is `txpolicy.rs` with two variables: the block's `prices` and the `plan`
a client computed from them. `bounds` and `publish_bounds` are the functions of the
same name; the pool's check is `check_fee_fields` of `PoolRules`, the definition that
the pool's own module applies. `publish` and `submit` plan, `move` changes the
prices, `include` takes a transaction whose bounds cover them.

Run `txpolicy`: the pool takes the fee fields of every publish the client sends
(`PoolTakesPublish`); a send is refused only if no price of two figures a tenth
above the current one fits a ticket (`RefusedOnlyWhenShort`); what was planned
outlives a rise by a tenth, also when the ticket capped the bound (`SurvivesRise`).

Bounds: L2 prices next to every point where the rounding changes step, the cap
starts (101) and the refusal starts (137), and prices of L1 data where its part
changes the cap or uses the ticket up. Saturation at 128 bits is left out, as no
price near the real ones reaches it; so is the random delay before a publish, which
`SendClient` has as the time that passes.

## 7 The app lock

| Variable | In the code |
| --- | --- |
| `lock` | the Keychain item of `applock.rs`: salt and wrapped master key (`wrap`, `pin`, `mk`), failures, the time before which no attempt is made |
| `keys` | the Keychain items of `keychain.rs`: per key, bare or the master key it is wrapped under |
| `vaultfile`, `file` | `vault.json` of a profile, and what its secret file is sealed under |
| `master`, `cache`, `wiped` | `MASTER`, the open keys, `WIPED` of each process |
| `attempt` | the advisory lock on the attempt file |
| `pc`, `job` | where each thread is, with the blob it loaded |
| `tried`, `events` | history: wrong PINs checked against a wrap; whether a wipe began or was cut |

Each Keychain call and each file operation is a step of a thread: `set_pin` ...
`wrap_done` for the first PIN and the wrapping of old keys, `begin_attempt` ...
`reset` for an attempt, `change_save` ... `change_done` for a new PIN, `shred_all` ...
`remove_dirs` for the wipe, `begin_write` ... `write_file` for a sealed write that may
create the vault. `kill` stops a process anywhere; the system drops its lock.

Run `applock`, the GUI and the command line as two processes: every guess is counted
(`GuessesCounted`), the last one wipes unless its process is killed
(`TenthWrongWipes`), no file is sealed under a key `vault.json` does not name
(`SealedUnderNamedKey`), and the stored PIN opens every sealed file
(`PinOpensProfiles`). The last two end when a panic wipe begins: section 13 says
what a straggler may do then.

Bounds: two attempts in place of ten, with no free one, so that the wait and the
wipe both occur; two PINs, two wrappings (the first and one change), two keys (the
winner's and the loser's), one kill. `SerialFirstUse` assumes that the two processes
do not both set the *first* PIN in the same moment, for which the code has no lock;
the two theorems of section 12 about this module do without it.
Argon2 and the ciphers are ideal. Deadlock is not checked: without attempts
left and with the bounds spent everything may stop.

## 8 Profiles

`dir` gives each place - `profiles/<name>`, `archive/<name>` and the flat root - the
files that are there, the key its vault names, its account and its wallet; `kc`,
`sncast` and `current` are the Keychain, sncast's accounts file and the `current`
file. `plan` is the open delete dialog and `op` the operation under way. Every file
operation of `wipe.rs` and `profiles.rs` is an action: `move_tickets`, `shred`,
`remove_sncast_account`, `remove_dir_all`, `fix_current` for a delete; likewise for
archive, migration and the panic wipe. `crash` may come between any two; the user
then does what they like. `worker` is what sends and purchases do to the current
wallet between operations.

Run `profiles`: no ticket is lost at any step of any of them (`TicketsKept`), a spent
one is never offered again (`SpentStays`), deleting takes no key and no account
another profile needs (`OthersKeep`), and a panic wipe leaves nothing of what
interrupted deletes left behind (`PanicTakesAll`). `profiles_migrate` is a violation,
see section 13.

Bounds: two profiles, one a copy of the other, or with its account, or archived under
its name, with a flat profile beside; one ticket, one kill in an operation. These are
all the ways in which two directories can share something. `FreshPlans` is the
modal dialog: nothing is bought while a plan is open. `FlatInUse` lets the command
line go on with a flat profile, and is on in `profiles_migrate` only.

## 9 Setup

On disk: `file` (`setup.json`, how many steps are done), `accounts`, `keys`, `config`,
and the `leftovers` of an older store. `th` is the run of the wizard's worker and of
the command line, `wiz` and `events` the window and its channel. The chain has
`nonce`, `mempool` and `outcome` of the funding and the new account, `balance`,
`deployed`, and who is registered under which `users`.

| Code | Actions |
| --- | --- |
| `setup.rs` runner | `run_step`, `mark_done`, `step_create`, `park`, `already_funded`, `step_fund`, `transfer`, `transfer_receipt`, `step_deploy`, `deploy_receipt`, `save_new_keys`, `save_new_config`, `step_init`, `run_refused` |
| `app.rs` `register`, `migrate_store` | `register`, `ensure_kem_seed`, `ensure_register_keys`, `get_user`, `submit_register`, `register_receipt`, `record_registration`, `migrate_keys`, `migrate_config`, `migrate_leftovers` |
| `wizard_view.rs`, `setup_flow.rs` | `new_profile`, `create`, `confirm`, `request_resume`, `resume`, `poll`, `dismiss`, `close` |
| chain, other users | `execute`, `evict`, `deposit`, `other_registers` |
| failures | `run_fails`, `save_fails`, `step_fund(FALSE)` (the balance cannot be read), `kill` (which may tear a file being written) |

Run `setup`: the user pays once, unless the code could not read the balance
(`slips`) or lost its checkpoint, and never without confirming (`FundedOnce`); what
the pool holds for the account is what `keys.json` holds, never a key of an older
store (`RegisteredIsHeld`); and the setup is finished in the end (`SetupFinishes`),
except where a kill cuts it in two places no resume can mend (`InitCut`,
`RegisterCut`, section 13), or somebody else took the handle.

Fairness: the worker, the drained channel and the resumption go on (weak), the user
confirms and asks again whenever offered (strong), an external deposit is made, and
the node executes what it took (weak). Nothing says that a step succeeds, but
what can go wrong is bounded by `MaxTrouble`.

Bounds: any two of an error, a kill and a command of the command line, at any step
(`MaxTrouble` counts them together: a command runs beside the wizard, so a second
command or a fault meets it at every point); three transactions per account; the
profile new, with a v4 store, or on an older one; both modes of funding. A unit of
STRK is half the funding, so that a deposit may be partial. A registration may be
taken by another member in between.

## 10 The desktop program

`threads` are the workers and what each has sent that nobody has read; `app` the
window (locked, a migration on offer, the profile to open next); `wizard` the
setup's receiver; `session` the session of one profile: its receivers, what it
shows, the checklist `flow`, the banner's `pending`. On disk: `dirs`, `sends`.

The actions are the buttons, under the conditions the views give them
(`compose_view.rs`, `session.rs`, `app.rs`), one action per poll that reads a
message, and the workers' outcomes (`one_shot`, `begin_send`, `prove_and_save`,
`publish`), whose inside is `SendClient` and `Setup`. A receiver that is dropped
leaves its thread running.

Run `gui`: what is shown belongs to the profile on display (`ShownIsOwn`); no two
paid operations that the window listens to overlap, and one send at most runs in
the program (`OnePaidFlow`); a resolution is of the handle shown
(`ResolvedIsShown`); a send that failed leaves a button to go
on with, and one that was interrupted is offered again (`NoSendStranded`).

Bounds: two profiles, two handles, one send id, two threads - one that
the window listens to and one it has dropped, or two it listens to. Profiles and
handles are interchangeable. Five kinds of launch: in one there is room for a second
profile to be set up, in one both are registered, and in the others the second was
deleted. The recipient of a running send is not tracked. Deadlock *is* checked: the window never hangs.

Left out: the tabs (one click reaches any), the count that disables Send in an empty
wallet, the fields of the wizard and of the dialogs (each is its final button), the
`current` file (in `Profiles`), and launches without a profile root, which do less.
A report that is on display stands for the report `buy_tickets` needs. Resuming a
send that was published meanwhile does nothing. A worker that panics leaves its
receiver in place; that is not modelled. The launch `old_send` is not among
those of the run: see section 13.

## 11 The verifier router

`VerifierRules` says what a proof is - head, program, sampled section, FRI slice,
layer proofs - and what accepting it in one go means: a list of checks, each made
on a digest and on sections. Which checks pass is the constant `Valid`; which data
each is made on is taken from the code, since that is what a split can get wrong. A
hash is what it hashes, a channel digest the sequence of what was mixed into it.

| Variable | In the code |
| --- | --- |
| `checkpoints` | `router.cairo`: the tag and hash of each caller and proof id, here the tag and the state that is hashed |
| `staged` | the slots of the sampled section |
| `routes`, `frozen`, `facts` | `fact_registry.cairo` |
| `pc` | the next call of `devnet_drive.py` |

| Code | Actions |
| --- | --- |
| `stage` | `stage` |
| `machine_begin`, `machine_claim_chunk`, `machine_claim_finalize` | `begin`, `claim_chunk`, `claim_finalize` |
| `machine_lookup_chunk`, `machine_lookup_finalize` | `lookup_chunk`, `lookup_finalize` |
| `oods_chunks.cairo` | `oods_begin`, `oods_group`, `oods_finalize` |
| `machine_fri_commit`, `machine_group` | `fri_commit`, `group` |
| `machine_fri_layers_begin`, `machine_fri_layers`, `machine_finalize` with `register_fact` | `fri_layers_begin`, `fri_layers`, `finalize` |
| registry governance | `add_route`, `freeze_routes` |

A transaction is one action: the router's entry point, the machine's phase it calls
and the next checkpoint. The state a call echoes has to hash to the checkpoint, so
it is the state stored and no parameter; everything else a call brings is
existentially quantified, for every caller. A transaction that reverts is no step. `group`
reads what is staged *now*: only the digest taken by `oods_begin` ties the two.

Run `router_drive`:

* `PhasesPassed` - every checkpoint stands for one proof that passed all checks of the
  phases before, although each call brings its sections anew, other sections are
  staged in between, and phases are tried in any order.
* `ImplementsVerifier` - with `VerifiedFacts` as the abstract specification: facts are
  those of accepted proofs, put there by a listed route, and no route comes after the
  freeze.
* `DriveFinishes` - the driver's proof goes through whatever others do under the same
  proof id.

Bounds: two heads, one stating a true claim and one a false claim whose untrue sampled
section would pass the OODS point; programs of up to two entries in up to two chunks, so
that the same entries can be cut differently; three families in classes of one and two;
two queries; one inner layer and the first; two slots staged one by one; the driver
and one other caller under one proof id. Each pair that a digest ties together is there
twice, once equal and once not. 22,964 states. Deadlock is not checked: the protocol ends.

Fairness: the driver sends its next call when it has the receipt of the last
(`Driver.step`, `wait_receipt`), so its next call is weakly fair: the node is taken to
execute it within the ten minutes after which the driver gives up. All others do what
they like, or nothing.

## 12 What is proved

A theorem holds for every value of the constants that satisfies the assumptions of its
module. For the pool these are `ConstructorAssumption` (what the constructor asserts),
`DomainAssumption` and `BoardAssumption` (distinctness of the special values).

| Theorem | Says |
| --- | --- |
| `TypeCorrect` | `Spec => []TypeOK`, one each for the pool, `SendClient`, `Profiles` and `Setup`; `[]Typed` for `GuiSession` |
| `PoolIsSolvent`, `FeesAreCovered` | the balance always backs the tickets not burnt; fees never exceed burnt tickets times the price |
| `ValidatedSendsLand` | what validate admitted, execute admits |
| `NothingPublishedTwice` | no envelope, nullifier or ticket is used by two messages |
| `OnlyMembersPublish` | every message has a registered member and a bought, burnt ticket |
| `MembersAreLimited` | while the chain is in one epoch, a member publishes at most `quota` messages per admissible epoch |
| `DirectoryAgrees` | the maps that `register` writes never come apart |
| `RootsAreKnown` | exactly the last `ROOT_HISTORY_SIZE` member roots and every ticket root are known |
| `PoolImplementsBoard` | the pool implements `SendBoard` |
| `EveryGuessCounts` | wrong PINs tried never exceed the stored counter |
| `LastGuessWipes` | a wrap that took `MAX_ATTEMPTS` is being wiped, unless its process was killed |
| `SealedUnderItsKey` | until a panic wipe, every file is sealed under the key its vault names, and that key exists |
| `StoredPinOpens` | if one process sets the first PIN, the stored PIN opens every profile until a panic wipe |
| `SlotsUsedOnce` | no two proofs hold the same slot of an epoch |
| `SendsLandOnce` | a send executes at most once, and what is shown as done was published |
| `SecretsSurvive` | with the workers kept apart, the secret of every purchase that may land is on disk |
| `RetiredIsFinal` | if no POST is taken late, a retired send is never published |
| `HarmStaysContained` | whatever overlaps, is killed, fails to save or is taken late, a ticket that no fault fell on belongs to one send until that send lets go of it, and none is given up unburnt |
| `TicketsSurvive` | with the two switches of section 8, a ticket neither spent nor given up is in a wallet that opens, wherever an operation on profiles is killed |
| `SpentIsFinal` | no wallet that recorded a ticket as spent offers it again |
| `DeletionHarmsNoOther` | a deletion takes no directory, key or account of another profile |
| `PanicLeavesNothing` | a panic wipe that ends leaves no profile and no key |
| `FundsLeaveOnce` | a setup is paid for once and only when confirmed, but for what `slips` and `lost` name |
| `PoolHoldsOurKeys` | what the pool knows of a profile is complete and on its disk |
| `NeverAnothersData` | the window shows nothing that was fetched for another profile |
| `ResolutionIsCurrent` | a handle shown as resolved is the one in the field |
| `NeverPaysTwice` | one paid operation that the window listens to, and one send in the whole program |
| `AlwaysAWayOn` | without a start on a retired store with an open send, no send is left without a way on |
| `NeverForgotten` | from any start, an interrupted send is offered, was dismissed or is being worked on |
| `PublishIsTaken` | the pool's check takes the fee fields of every publish |
| `RefusalIsNeeded` | if the policy admits the client's tip and gas amount, a publish is refused only when no price of two figures fits the ticket |
| `PlanOutlivesRise` | a planned transaction stays includable after a rise of every price by a tenth |
| `CheckpointsPassedTheirPhases` | every checkpoint of the router stands for one proof that passed the phases before |
| `RouterImplementsVerifier` | the router and registry implement `VerifiedFacts`: only facts of accepted proofs |
| `RoundingKeepsEpoch`, `FreshnessIgnoresRounding` | rounding the block never changes an epoch decision |
| `AcceptedFeeFitsTicket` | the most the sequencer can charge for an accepted transaction fits one ticket |

`OnlyMembersPublish` is the one a member cares about, `PoolIsSolvent` the one an
operator does. The arguments:

* Books. `FeesCoveredByTickets` is not inductive: a validated transaction has
  burnt its ticket and has not been charged yet. `Books` says that balance and
  fees add up to the tickets sold, that fees and the price of the pending ticket
  are covered by burnt ones, that only tickets bought are burnt, and that the
  pending charge fits its ticket (`AcceptedFeeFitsTicket`, from the asserted
  `max_fee <= ticket_price`). A leaf bought twice is paid twice and burnt once:
  what is compared with the balance is the set of tickets, not the leaves.
* Validate, then execute. `ValidatedNeverReverts` is inductive over `TypeOK`:
  validate establishes it, nothing runs before execute, and the only difference,
  the rounded block, is settled by `FreshnessIgnoresRounding`. That rests on
  `epoch_blocks` being a multiple of the rounding, as the constructor asserts.
* Replay and membership. `Recorded` says that every message's envelope and
  nullifier are in the replay sets, its ticket is burnt and its member is in the
  tree, and the same of the pending transaction with its own ticket in no
  message. It is inductive together with `NoReplay`. Membership enters at
  validate: a root the pool knows is one of its own and never `ForeignRoot`
  (`KnownRootIsOwn`), so the witness of the proof is a leaf, and leaves stay.

* Rate. `Slotted` says that every message's slot is below `quota` and its epoch was
  within the lag when it was published. Distinct messages of a member have distinct
  nullifiers (`NoReplay`), so those published while the chain is in one epoch map one
  to one into a grid of `max_epoch_lag + 1` epochs and `quota` slots, whose size is
  the bound.
* Directory. `DirectoryConsistent` is inductive once it also says that a registered
  user's leaf index is below the number of leaves: `register` then writes an index
  no one has.
* Roots. `Ring` says which root each slot of the ring holds. Its step needs that
  numbers less than `ROOT_HISTORY_SIZE` apart fall on different slots and numbers
  that far apart on the same one, which is proved from the definition of `%`.
* Board. What `validate` burns a ticket for and `execute` appends is a post the board
  allows: its envelope is new and its ticket unspent by `Recorded`, and if one slot of
  a member's epoch is free, fewer than `quota` posts hold the others (`QuotaLeft`).
  Every other step leaves the posts.

The app lock's theorems hold for any number of threads, processes, profiles and PINs,
any `MAX_ATTEMPTS` above zero, with or without `AfterWipe`; they
assume `AttemptsAssumption`, `BoundsAssumption` and `AbsenceAssumption` (what stands for no
key and no lock is neither), and only `StoredPinOpens` assumes `SerialFirstUse`. `GuessesCounted` alone is not
inductive: a thread holds the blob it loaded and will save it over whatever is there.
`OneTries` says that only the holder of the attempt lock does so, `Counted` that its
blob's counter covers the guesses before "check" and the one under way at it, and
`WrapsAreFresh` that what `set_pin` and `change_pin` save beside the attempt lock
is a wrap nobody has tried or loaded. `LastGuess` follows an exhausted wrap: its
checker keeps the attempt lock until the wipe is over, and from then on no one
has the blob to write it back.
For the files, `Inv` is strengthened to `Files`. `Named` says what a thread that creates a vault
has put in the Keychain before it links the vault to it, that a key is taken out
again only by the thread that lost the race for the vault, and that a thread about
to write a file has its vault's key. It needs that identifiers are drawn anew. `OneMaster` says
that the stored wrap, every copy of it a thread will save, every unlocked process and every
wrapped key carry the same master: this is what a first PIN set twice breaks (section
13), hence `SerialFirstUse`.

The send client's theorems hold for any tickets and sends, any quota, and any number of
kills, retries and nonces; they assume `ClientAssumption`. Two of them have a
hypothesis that the model has as a switch, because without it the property is false:
`~GuiGates` (a send may start beside a purchase, section 13) and `~LatePosts` (a POST
without an answer is taken later). The inductive invariant has a part per
question:

* `InHand` and `Backed`: at each place of the worker, what it holds: a ticket of the
  tree, a send that is pending, a nonce that is recorded. Transactions exist
  only for sends that have a proof.
* `SlotsRecorded`: `SlotNeverReused` says nothing of a slot taken and not yet proved with.
  A slot in hand or in a proof is below the quota log, which is written before the
  slot is used; so a slot taken after a kill is another.
* `SecretsCopied`: each worker writes back a whole wallet that it read before. Every
  ordered ticket is in the copies too, or the write would lose it.
* `BurntOnce`: an executed transaction has burnt its ticket, so the next one of the same
  send reverts, whatever its nonce.
* `OneOnRecord`: as long as no POST of a send was taken late (`Prompt`), its only
  transaction is the one whose nonce is recorded, and when it is stale or retiring it
  has none that can be valid. It is said per send, so that one late POST does not end
  what is known of the others.
* `WalletsBacked`: what the wallet and its copies say of any ticket is backed by the
  chain: Spent is burnt, and what can be offered is in the tree. No fault breaks it.
* `Held`: every ticket that is not `hit` is `Truthful` (a reservation is there exactly
  while its send can still be published, and a burnt ticket is spent or held by the send
  that burnt it). The step shows that what a step does to a ticket it does not
  hit keeps it so. `HarmStaysContained` follows and needs no hypothesis on the
  switches.

The setup's theorems hold for any handles, funding modes, number of transactions, errors,
kills and commands; they assume `SetupAssumption` and `AbsenceAssumption`. `Placed` ties the
runner to the checkpoint (which step of the plan each place belongs to) and `Shown` the
window to it: a flow, or an event not yet drained, that shows the funding done is
backed by the file, for `confirm` trusts what the window shows. `Funded` adds that
transfers made and under way are at most one more than the slips
(`Spent`), that the balance holds what was transferred until the account is
deployed (`Covered`, from `Payable`: the node holds only what can be paid for), and that nothing
of the later steps exists before the funding is saved (`Ordered`): so a resumed
`step_fund` that reads the balance finds it. `Kept` says that every copy of
the keys `register` works on, in the wizard or in the command line, is the one on disk,
and that nothing overwrites keys that the chain may come to know.

The transaction policy's theorems hold for any kinds and gas amounts, any prices and any
policy of the pool; they assume `TxPolicyAssumption`, `ConstructorAssumption` and
`ScalesAssumption`: the scales are the powers of ten, up to one that leaves two figures of the
largest price and of the ticket, which is where the loop of `round_up_2sf` stops. That
it stops at the least such scale (`ScaleFound`) is proved from the well-ordering of the
naturals. The step that is easy to get wrong is capping: lowering a bound to the
ticket and rounding it down could fall below a price of two figures that would have fitted.
`RoundedDownKeeps` shows that it cannot, also when the two numbers have different scales.

The router's theorems hold for any callers, proof ids, sections and set of checks that
pass (`Valid`), and for any split of the program, the families, the queries and the
layers over calls; they assume `CountsAssumption`, `SectionsAssumption` and
`RouterAssumption`. The inductive invariant is `PhasesPassed` with the shape of the map.
A checkpoint names no proof: the witness changes from phase to phase, as each phase adds a
section, and stays for the sections already bound, which is what the digests in the
checkpoint are for. There is one lemma per entry point. What makes the split disappear are
lemmas about sequences: families, answers and layers done so far, continued by those
of a call, are those of a longer prefix (`SumContinued`, `AnswersContinued`, `Folding`), and
the entries seen by the lookup phase are those of the claim phase because both
carry the same chunks. At `finalize` the witness is a proof that `Accepts`, so that the step
is the registry's `Verify`; every other call of the router is a stutter of it.

The profiles' theorems hold for any names, accounts and tickets, any directories the program
starts with and any number of kills; they assume `FilesAssumption`, `AbsenceAssumption`
and `InitialAssumption` (a wallet belongs to a profile that is set up and, if sealed,
has its vault). `TicketsSurvive` has two hypotheses, the switches `FreshPlans` and
`~FlatInUse` of section 8: a ticket bought under an open dialog is not in its plan, and a
migration leaves a flat profile's wallet behind (section 13). `TicketsKept` is not inductive. `Kept` asks for the
profile's `config.json` too, without which no one can move the ticket on. `Deleting` follows
a delete from the dialog to the last file: as long as the plan is shown, a ticket not spent
or given up is in the plan, in flight or elsewhere; `move_tickets` reads the wallet again, so
that what became movable since is moved as well; once the key is shredded every such ticket
is elsewhere, and stays readable there because a key with sharers is kept (`ShredKeeps`).
`Migrating` says that a migration fills a directory without a wallet, and `Panicking` which
part of the panic wipe is done at each of its steps. `WalletSteps` says what any step may
do to one ticket in one wallet, which gives `SpentIsFinal`.

The window's theorems hold for any profiles, handles and sends, any number of threads, any mix
of launches (only `AlwaysAWayOn` assumes that `"old_send"` is not among them, for which
section 13 has the counterexample), and assume `GuiAssumption` and `AbsenceAssumption`
(`NoOne` and `"unknown handle"` are nothing else). None of the properties is inductive: each
is about what the window shows, and says nothing of threads, which decide what it will
show. The parts of `Inv`:

* `Own`: a receiver belongs to a worker of its kind, started for the profile of the
  session and, for a resolution, for the handle in the field. It gives
  `NeverAnothersData` and `ResolutionIsCurrent`, and that receivers are distinct.
* `Tidy` and `Ids`: which messages a thread can have sent at its place, that a thread that
  ended unheard is gone, and that the send a session or a worker names is the profile's.
* `Framed`: there is no session in a locked or starting window, and the profile of the session
  is on disk as long as it is shown.
* `Alone`: while the wizard spends, the session has no send and no paid operation.
* `Fresh`: a profile that is not registered has no send, and a session never shows it
  further than it is; so a registration cannot run beside a send, though no button
  checks it.
* `Orphans`: a thread that pays and is not listened to was left by a panic wipe, after which
  no profile is left to send from (`Dead`). This is the reason why one send at a time
  is true of the whole program and not of the window alone: Lock, a switch and Delete wait
  for a send, a setup is only started without one, and a kill ends the threads.
* `Flows` and `Offered`: what the checklist shows as published is, and every incomplete send is
  in the banner, dismissed, or with the worker.
* `Recoverable`, for `AlwaysAWayOn`: whenever a failure is on its way in the channel, a step is
  open, shown as running or started by a message before it (`Way`), so that the failure
  is shown at a step, which is what the Resume button needs. It is false for a resume
  without a route, which ends before any step has started.

There is one lemma per part that every step keeps it; what a step may do to one thread,
one file or one directory is stated once (`ThreadSteps`, `SendEffects`, `DirSteps`,
`RxSteps`, `SendSays`), and the lemmas of the parts rest on these. TLC checked all the parts as
invariants of an instance like that of run `gui`, with one handle, before they were proved.

Only model-checked: the properties of `Reader`, since what its trees compute is an
induction over data, and the liveness properties `PendingSendsEnd`, `SetupFinishes` and
`DriveFinishes`, which are out of the prover's reach.

## 13 Where the code and its comments disagree

Two disagreements have a run of their own that finds a violation:

* **A send beside a purchase** (`client_busy`). `can_send` (`compose_view.rs:152`)
  looks at `work_in_flight`, not at `busy`. The send saves the wallet it loaded
  earlier over the one in which the buy worker had put a fresh secret.
  `tickets.rs:14`: "a purchase that lands is never one whose secrets only lived in
  memory".
* **A migration that leaves the vault behind** (`profiles_migrate`). `ROOT_ENTRIES`
  (`profiles.rs:16`) lists what moves into the new profile, without `vault.json`: a
  flat profile whose files were sealed (the command line does so on any write) has
  sealed files and no key to open them with after the move. `profiles.rs:14`:
  "Directory entries a legacy root profile carries; migration moves each that exists
  into the new `.zkmsg-<name>` child."

The others were met while modelling. Each is a reason for a limit that a property
names (`hit` in `SendClient`, `lost` in `Setup`, `"wipe"` in `AppLock`, `InitCut` and `RegisterCut` in
`Setup`, a constant or a kind of launch), and can be seen by lifting the limit:

* *A reservation nobody settles.* `prepare` saves the reservation
  (`virtual_send.rs:648`); the send's state is first written after the proof, which
  takes minutes. A program killed in between leaves the ticket Reserved by a send no
  file names. `tickets.rs:47`: "settled when that send publishes or is retired".
* *Released twice.* `release` (`tickets.rs:221`) does not compare the send. After a
  kill between release and retire, the resumed send releases the ticket again, by
  then another send's. `tickets.rs:220`: "Back to Unspent: the send that reserved it
  will never publish."
* *Nothing re-settles.* When the wallet cannot be saved after a publish, the burnt
  ticket stays Reserved: `settle` looks at Pending ones only (`tickets.rs:160`).
  `virtual_send.rs:865`: "the wallet re-settles against the chain later".
* *Retired, and published.* With `LatePosts`, `publish` reads the status of the saved
  hash and later retires the send if its root is no longer known
  (`virtual_send.rs:740`); a POST that got to the gateway in between may be in a
  block. `virtual_send.rs:894`: "its proof can never be published".
* *A ticket whose block is replaced.* `settle` (`tickets.rs:163`) records the index of
  a purchase once, from the latest tree. If the block is replaced and the purchase
  gets another index, `pick` reports for ever that it is not in the tree yet.
* *A PIN brought back.* `change_pin` saves the new wrap outside the attempt lock
  (`applock.rs:291`). An attempt of another process, which loaded the old blob
  before, saves it afterwards (`applock.rs:265`, `applock.rs:269`): the old PIN is back. What is
  checked is that every guess is still counted and every file still opens.
* *A straggler after a panic wipe.* `vault.rs:202` refuses to create a vault once
  `WIPED` is set, but a worker past this check recreates the profile directory under
  a fresh key (`vault.rs:204`). What it writes is new; nothing wiped comes back.
* *A setup cut where no resume helps.* `init_identity` writes `keys.json`, then
  `config.json` (`app.rs:83`, `app.rs:102`); after a kill in between, `step_init` takes
  the profile for initialized (`setup.rs:322`) and every later step lacks the config.
  `register` records the handle before the pipeline records the step; resumed, it
  bails with "already registered" (`app.rs:131`). `setup.rs:6`: "a crash resumes at
  the first incomplete step".
* *A lost checkpoint pays again.* `setup.json` is written in place (`setup.rs:139`), and
  one that does not load is replaced by a new plan (`wizard_view.rs:535`). When the save
  fails in an open wizard whose checklist shows the funding done, Resume asks for no
  confirmation (`wizard_view.rs:510`); the new plan comes to `step_fund`, which
  finds the balance below the target if the deployment took its fee, and transfers once more. `FundedOnce`
  excuses it (`lost`); without the excuse the run ends in that transfer.
  `wizard_view.rs:507`: "Transfer mode keeps the gate until Fund is checkpointed done".
* *Paid flows after Lock.* Lock drops the session's receivers (`gui/src/app.rs:649`)
  and not its workers, when only a purchase or a registration runs: another one can
  be started after unlocking. `gui/src/app.rs:195`: "so no two paid flows overlap".
  `OnePaidFlow` is about those the window listens to, and about sends.
* *The send dialog is not modal.* The comment at `compose_view.rs:179` says that the
  handle shown and the recipient resolved are the same while it is open; the form
  behind it can still be edited, which clears the resolution; Confirm then sends to
  the handle in the field, which `prepare` looks up itself. `ResolvedIsShown` is what
  does hold.
* *An interrupted send on a retired store.* The checklist of a resumed send whose
  profile has moved to no route has neither button (`compose_view.rs:357`,
  `send_flow.rs:106`): no step has started, so none is failed. The launch `old_send`
  shows it as a violation of `NoSendStranded`. A fresh send whose config or keys do not
  load (`worker.rs:118-119`), which is left out of `begin_send`, ends the same way.

* *What the head's digest covers.* `machine.cairo:30-33` says that every field of the head
  is mixed into the channel. The six program entries that the head carries for
  `verify_claim` are hashed in `d_head`, but are neither mixed nor compared with the
  entries that `claim_chunk` brings. In the model `ClaimHolds` is a check on the head
  alone for that reason, and accepting a proof in one go means no more.
* *Where a layer's root comes from.* `fri_transport.cairo:9` says that the layers' values
  and witnesses are authenticated against the layer commitments. `verify_first_layer` and
  `verify_inner_layer` take the root from the layer proof that arrives
  (`fri_transport.cairo:278`, `fri_transport.cairo:334`). In the model `LayerVerifies` is a
  check on the evaluations, the FRI slice and the layer proof as they arrive; what it
  compares inside is part of `Valid`, and none of the router's theorems depends on it.
* *A proof id cannot be begun twice.* `begin` needs an unused checkpoint
  (`router.cairo:349`), and no entry point goes back. A driver whose chunk is
  refused for good (one of the lookup phase that differs from the claim's) has to take
  another id; `devnet_drive.py` exits. `DriveFinishes` is about a driver that
  brings what it began with.

## 14 What is not modelled

* Cryptography, hashing and the prover are ideal: what they prove is modelled, how
  is not. Field and polynomial arithmetic of the verifier works on tens of
  thousands of field elements, and large parts are generated.
* The lane-1 registry, which verifies in two phases with one checkpoint, and its
  consumers: see the plan.
* Two processes on one wallet: `SendClient` models the threads of one process;
  nothing in the code keeps a second one out. (`AppLock` and `Setup` do model two.)
* Transport (HTTP, Tor), files below `write_atomic`, layout and wording of the GUI,
  and the parts of the command line that only print.
* Of the send pipeline: request formats and transaction hashing (`invoke_v3.rs`).
* Of the pool: the ephemeral and encapsulation keys that a call carries, and
  overflow of the fee sum, which is computed in 256 bits from 64- and 128-bit
  fields; the nonce of the account, which can only remove behaviours; views.
* Details that no property depends on: the constant store field of the proven payload
  (`pool.cairo:465`); in `SendClient`, that the proof and the send's state are two
  writes (a proof alone is not resumed, so a kill between them is one before); in `AppLock`, that finding no PIN set and beginning the panic
  wipe are two steps; in `Setup`,
  that the first save of the plan may tear (`wizard_view.rs:564`), after which nothing has been
  paid; and in `VerifierRouter`, that `devnet_drive.py` repeats a call its node
  refused (lines 67-75).
* The components listed as such in `PROJECT.json`: the retired stores, the provers
  and bridges, the probes, the local gateway.

`SendClient`, `AppLock`, `Profiles` and `Setup` each define a `TypeOK` that no run
checks on its own: it documents the variables' types. Those of `SendClient`, `Profiles` and `Setup` are proved.

## 15 Plan

Done: pool and board, the client from setup to deletion, its desktop program, the router
with the shared registry, and the theorems of section 12. Next, in this order:

1. The lane-1 registry: staged proofs, two phases with one checkpoint, and a consumer
   that asks `is_valid`; `VerifiedFacts` as what it implements.
2. The full tree as a recursive function in a module that can be proved about: that
   appending a leaf changes one path is what `Reader` checks for four leaves.

Questions about one instance share a run, so that the set stays small enough to be
run as a whole.
