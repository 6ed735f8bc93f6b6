# Specifications of Rúnar

Rúnar compiles contracts written in nine source languages to Bitcoin Script and
drives them from SDKs in seven. These modules specify the parts of the
TypeScript reference implementation (`packages/`) where order, failure and
arithmetic decide whether funds stay spendable. The Go, Rust, Python, Zig, Ruby
and Java peers are ports of the same code.

## The system

| component | source | state | operations |
|---|---|---|---|
| contract object | `runar-sdk/src/contract.ts` | `_state`, `currentUtxo`, `_provider`, `_signer`, the set of consumed prepared calls | `deploy`, `deployWithWallet`, `call`, `prepareCall`, `finalizeCall`, `setState`, `connect`, `fromUtxo`, `fromTxId` |
| coin selection, transaction building | `calling.ts`, `deployment.ts` | none | `selectUtxos`, `estimateDeployFee`, `buildDeployTransaction`, `buildCallTransaction` |
| state codec, script walkers | `state.ts`, `script-utils.ts` | none | `serializeState`, `deserializeState`, `findLastOpReturn` |
| artifact slots, code separators | `slot-layout.ts`, `contract.ts` | none | splice constructor arguments and separator indices into the template |
| ANF interpreter | `anf-interpreter.ts` | an environment per run | `computeNewStateAndDataOutputs` |
| providers | `providers/*` | transaction caches, the mock's coins | `getUtxos`, `broadcast`, `getTransaction`, `ensureFunding` |
| token wallet | `tokens.ts` | none of its own | `transfer`, `merge` |
| multi-contract assembly | `multi-contract.ts` | none | `assembleMultiContractCall` |
| compiler | `runar-compiler/src` | a tree per pass | parse, validate, type check, lower to ANF, lower to stack code, optimize, emit |
| script VM, interpreter, analyzer | `runar-testing/src` | two stacks, a program counter | one step per opcode |

An application calls the contract object. The object asks the provider for coins
and a fee rate, runs the ANF interpreter for the next state, builds a transaction
with `calling.ts`, computes the BIP-143 preimage over its own locking script,
asks the signer for signatures, and broadcasts. The script on the network then
recomputes the outputs from the spent state and refuses any transaction whose
`hashOutputs` differs: whatever the object believes must agree with the chain.

What is hard:

* **Interleaving.** Every operation is an `async` function over the object's
  mutable fields. Nothing serializes them, and several fields are read again
  after an await.
* **Partial failure.** `_state` is advanced while a call is being prepared, long
  before signing and broadcast can fail.
* **Answers.** A broadcast can be accepted and its answer lost, or two answers can
  arrive in the opposite order.
* **Arithmetic.** Fees are estimated before the unlocking script exists, and the
  change amount is an input of the script that the fee depends on.
* **Bytes.** Offsets into scripts move as values of different encoded lengths are
  spliced in; state integers have a fixed width.

## Modules

| module | what it is |
|---|---|
| `AtomicContract` | what a caller who makes one call at a time is promised: operations in one step, state and tip moving together |
| `RunarContract` | `contract.ts` as it is: one action per stretch of code between two awaits, over any number of pending invocations |
| `MCRunarContract` | the instances TLC checks |
| `RunarContractProofs` | the inductive invariant and the safety theorems |
| `SequentialProofs` | what holds for calls made one at a time, up to the refinement of `AtomicContract` |
| `Funding` | how one deployment or call is paid for: coin selection and the three sizings of a transaction |
| `MCFunding` | wallets and operations at the boundaries of the fee, and the properties that quantify over sets of coins |
| `FundingProofs` | that for every operation the amounts balance, the estimate holds, the selection is the smallest, and a deployment fails only where every set of coins does |
| `SetSums` | sums over finite sets |
| `RecursionProofs` | induction, functions defined by recursion on a rank, and what is true of those sums |
| `Interpreter` | the source language: syntax trees and the evaluator that says what a call comes to |
| `AnfLower` | pass 4, to named bindings: locals, conditionals, inlined calls, the preamble and continuation of a stateful method |
| `StackLower` | pass 5, to stack code: where each name is, what is consumed, how arms and loops are reconciled |
| `AnfOptimize`, `Peephole` | constant folding, curve simplification, dead code; rewriting and flattening of stack code |
| `AnfInterpreter` | the SDK's evaluator of the intermediate program in an artifact |
| `ScriptVM` | the script machine: opcodes, two stacks, limits |
| `Compiler` | the passes in order, one spend of the script they made, and what source and SDK say of it |
| `MCCompiler`, `MCMiscompiled` | the families of contracts compiled; those the compiler gets wrong |
| `ContractScript` | a locking script byte by byte: the emitter's template, the splicing, the state section, and what is read back from the chain |
| `MCContractScript` | contracts and arguments at the boundaries of the encodings |
| `ContractScriptCodec` | what pushes and state sections carry is read back: numbers, lengths, elements, fields |
| `ContractScriptProofs` | the state and the arguments survive the script, a damaged section is refused, the slot layout is right and an artifact recognizes its scripts, for any contract and arguments |
| `WalletProvider` | coins from a BRC-100 wallet, shared by several contract objects: listing, funding, the cache of parents, `deployWithWallet` |
| `MCWalletProvider` | two contracts on one provider |
| `WalletProviderProofs` | no contract goes astray and no parent is lost, for any instance |
| `WalletFundingProofs` | what `ensureFunding` asks for is enough and not too much, for any instance |

### RunarContract

State: `state` is `_state`; `currentUtxo` an outpoint with the state its script
carries, or `None`; `conn` the pair `_provider`/`_signer`; `consumed` the
module-level `WeakSet` of the one-shot guard; `calls` the `PreparedCall` objects
built; `pc[t]` and `job[t]` the await a pending invocation is suspended at and its
locals. The network is `outs` (the state each accepted contract output carries),
`spent`, and `lost` (spends whose answer never came). `connected` and `sends` are
histories.

| action | code |
|---|---|
| `Deploy`, `DeployBuild`, `DeployReturn` | `deploy` to `getAddress()`; from there to `broadcast`; after it returns |
| `CallBegin` | `call`/`prepareCall` to the first await: swaps the explicit pair in, snapshots `currentUtxo` |
| `PrepareState` | the ANF interpreter, the new `_state` and the new locking script |
| `PrepareFund`, `PrepareRebuild` | coin selection and the first transaction; the rebuilt one and its preimage |
| `PrepareTerminal` | the whole path of `options.terminalOutputs` |
| `PrepareOnNull` | the `TypeError` when `currentUtxo` became `null` during an await |
| `Sign`, `FinalizeCall` | `call`'s signing; `finalizeCall` to `broadcast`: one-shot guard, dry run |
| `CallReturn`, `Fetched` | `currentUtxo` after the broadcast; `getTransaction`, whose failure is tolerated |
| `Throw` | a rejected promise, too few coins or too many funding inputs, at each await |
| `SetState`, `Connect` | the application between awaits |
| `DeployAccept`, `Accept`, `Refuse` | the network and the transport: external |

A script is the state it carries, since one object has one code part. A method
is what its script demands of continuation output 0 (`Effect`); the ANF
interpreter is an implementation of the same function that may throw
(`"anf" \in Faults`). `Updates` have one continuation, `Splits` are called with
`options.outputs`, `Closes` with `options.terminalOutputs`. `Satisfies` is what
`checkPreimage` and the output hash establish: the preimage is over the spent
script and the outputs are the demanded ones.

### Funding

This is what `RunarContract` takes for granted in `PrepareFund` and
`PrepareRebuild`, where a call either finds coins or throws. A script is its
length and a coin its value, since the fee depends on nothing else; the sizes are
the code's own, down to length prefixes and the encoding of the change amount.

| action | code |
|---|---|
| `Begin` | the rate and the coins are there; `selectUtxos` sorts them |
| `SelectNext` | one turn of its loop |
| `buildDeployTransaction` | of that name: change, or an error |
| `Capped` | `maxFundingInputs` |
| `Build` | the first `buildCallTransaction`, around the placeholder unlocking script |
| `Rebuild` | the first `buildStatefulUnlock`, which pushes the change of that transaction, and the second `buildCallTransaction` |
| `Finish` | the second `buildStatefulUnlock`, which pushes the change of the rebuilt one |

### The compiler

The modules EXTEND each other as the passes import each other's types, from
`Interpreter` over `AnfLower` to `ScriptVM` and `AnfInterpreter`. The passes are
pure functions of a tree, so each is an operator and `Compiler` is the machine
around them: `contract` and `options` are the input, `phase` the last pass done,
`code` what it left, `artifactAnf` the intermediate program the artifact carries,
`call` the spend and `vm` the script machine.

| action | code |
|---|---|
| `LowerAnf`, `LowerStack` | passes 4 and 5, which may throw (`phase = "rejected"`) |
| `Fold`, `SimplifyCurve`, `PeepholePass`, `EmitPass` | the optimizers, as the options say, and pass 6 |
| `Spend` | deployment with some property values, a call of some public method with some arguments, and a spender who may claim a wrong next state or be at fault (a selector of no method, another sighash type, a preimage of another transaction) |
| `Run` | unlocking and locking script, opcode by opcode, to the end |

`Agreement` compares the verdict with `ExecuteMethod`, the source's evaluator, on
the same call: it is what the repository's differential fuzzer samples, over
every contract of a family. A miscompilation shows up in it wherever it happens,
and the mutants of the project break passes 4 and 5, the emitter and the machine.

The SDK has a second evaluator, of the intermediate program the artifact carries
(`anf-interpreter.ts`). Two implementations of one semantics must agree for a call
to succeed: the SDK derives the next state and builds the outputs, the script
recomputes them. `DerivedState` compares that state with the source's, hence, by
`Agreement`, with the one the script accepts. `StrictAgrees` is about the mode that
enforces assertions off-chain: it stops no call that a script would accept. Its
converse holds where no private method is called, for assertions in those are
enforced in no mode. Contracts with curve operations are left out, which the
evaluator does not know, and so are contracts with state, whose preamble it cannot
get past in this mode (see below). JavaScript's `undefined` is 0, as `toBigInt` and
`isTruthy` take it.

Abstractions. Byte strings are sequences of tokens, so that concatenation, split
and hash keep their algebra and lose their bits. A curve point is its discrete
logarithm modulo a small order, and a curve operation one opcode; so are the
fixed sequences that check the preimage and split its fields. Numbers are
unbounded. Opcodes have no byte encoding, scripts no source map. The pass that
parses and the checks before pass 4 are taken as done: the contracts are trees.

### ContractScript

`RunarContract` takes a script for the state it carries, `Compiler` takes it for a
list of opcodes. Here it is bytes: `Artifact` emits the template of a contract with
its constructor slots, separator indices and separator positions; `NewContract` is
the object made from arguments; `getLockingScript` splices and serializes;
`fromUtxo`, `extractConstructorArgs` and `matchesArtifact` read a script back;
`Trim` says where `prepareCall` and `call` cut it for preimage and signature;
`resolveSlotLayout` and `ExcisedTemplate` are what a verifying contract is given.

| action | code |
|---|---|
| `Deploy` | `getLockingScript`, which may refuse an integer too large for its word |
| `Corrupt` | external: the state section arrives shorter or longer |
| `Load` | `fromUtxo` |
| `Call` | the trims of a call, through the object that deployed or one that loaded |

Integers in the state section have `WordSize` bytes, 8 in the code and 2 in the
runs, which brings the boundary of the word within reach of small arguments; numbers
in the code are read back from up to `NumberBytes` bytes, 4 in the runs and any
number in the code and the proofs. The
lengths of pushes and the bytes in them are real: arguments are full of bytes
that are `OP_RETURN` and `OP_CODESEPARATOR` when read as opcodes.

### WalletProvider

Each client deploys its contract, with `deploy` or `deployWithWallet`, and calls
it once, asking `ensureFunding` for coins first; a step that throws is begun
again. `basket` is what the wallet lists; `outputs` and `made` are the network,
whose transactions are numbered; `overlay` is what the overlay serves; `txCache`
and `currentUtxo` are the fields of that name; `pc` and `job` the await a client
is at with its locals. `restarted`, `muddled` and `lost` are histories: the
process restarted, a transaction whose answer was incomplete, a contract output
whose maker never heard of it.

| action | code |
|---|---|
| `EnsureFunding`, `FundingAnswer` | `ensureFunding` up to `createAction`, and after it |
| `Build` | `deploy` or a call from `getUtxos` to ARC, with the fetching of every parent in `broadcastTx` |
| `BroadcastReturns` | the rest of `broadcastTx`, and the assignment of `currentUtxo` |
| `DeployWithWallet`, `DeployAnswer` | `deployWithWallet` up to `createAction`, and after it |
| `CreateAction`, `Decline`, `Notice` | external: the wallet makes a transaction, refuses, learns of a spend |
| `Accept`, `Refuse`, `Restart` | external: ARC, and the process |

An operation costs the constant `Cost`; what fees really are is `Funding`'s matter.
ARC accepts a transaction whose inputs exist and are unspent, at once. Everything
submitted to the overlay arrives. The coins a call gives back as change are
nobody's: the SDK puts them under the signer's script without telling the wallet,
so they are in no basket. The broadcast inside `ensureFunding` and
`deployWithWallet` is one step with the handling of the answer before it. The
limit of 100 listed outputs is not reached.

## Runs

| run | shows |
|---|---|
| `sequential` | one invocation at a time, no faults: `RefinesAtomic` (the protocol implements `AtomicContract`), `InStep` (`state` is that of the tracked output whenever no call is pending), `AutoStateMatchesScript`, `Commits` (a call that begins is accepted) |
| `interrupted` | one at a time, every fault: `ConnRestored`, `OwnConnection` |
| `overlapping` | two invocations of every kind, every fault, reconnection, prepared calls finalized twice and in any order: `OneShot`, `TrackedOnChain`, `TrackedLive`, `TrackedForward` |
| `funding` | every wallet of up to three coins: `MinimumSet`, `DeployFailsOnlyPoor` against every set of coins, `Balanced`, `FeeCovered` |
| `stateless` | contracts without state, with and without the optional optimizers: `Agreement`, `CleanStack`, `FailsOnlyOnAssertion`, `DepthBound`, `Compiles`, `StrictAgrees` |
| `stateful` | contracts with state, every claim of a next state, every fault of the spender: `Agreement`, `FailsOnlyOnAssertion`, `DerivedState` |
| `dead_conditional` | a contract that is compiled wrongly: `Agreement` fails |
| `shadowed_property` | a parameter with the name of a property: `DerivedState` fails |
| `scripts` | contracts of one to three methods, arguments and state of every framing: `StateRestored`, `ArgsRestoredPlain`, `RecognizedPlain` (what is written is read back), `FailsClosed` (a damaged state section is refused), `TrimmedWhereExecuted`, `IndicesPushed`, `LayoutRightFramed` (offsets point where the script machine will look) |
| `variable_state` | `ArgsRestored` fails where a separator index is spliced in front of an argument |
| `one_byte` | `LayoutRight` fails for an argument that is a byte which an opcode pushes |
| `wallet` | two contracts on one provider, one of them deployed by the wallet, and one fault: `NoStray`, `ParentsKept`, `FundingBounded`, `FundedOnReturn`, `ServedOrStuck` |

Bounds. Three outpoints are a deployment and two continuations, or two
deployments and a continuation: enough for a spend to race a spend and for an
answer to arrive after a later one. Two prepared calls are enough for one to be
finalized twice while another is pending. Two tasks are the smallest number that
interleave, and the theorems hold for any number. Three or four states make the
state before, the state after and a wrong state different. `Room` keeps every
pending invocation an identity in hand, so the bounds never block a step that has
begun. Tasks, outpoints and prepared calls are symmetric: no property names one.
Deadlock is not checked where the identities run out and the system rests.
Coins of 120, 700 and 1500 satoshis are one worth less than the input that spends
it at 1000 satoshis per 1000 bytes, one that pays for a small transaction and one
for most; three of them give wallets in which two are needed and one is enough. A deployment
of 0 satoshis at a rate of 0 has nothing to pay.
Scripts of 60 and 252 bytes stand below and at the change of a length prefix, and
a script code of 700 bytes exceeds the allowance.

The stateless family crosses two locals and two parameters with every pair of
statements out of three plain ones and the conditionals whose arms rebind none,
one or both of the locals, then conditionals in arms, loops of zero to three
turns, private methods called at top level, in arms and in loops, one to three
public methods, constants, chains of additions and curve operations. Two locals
are what it takes for an arm to exchange slots, two statements for one to leave
what the other mistakes, three turns for a first, a middle and a last one.
Arguments 0, 1 and 2 stand on both sides of every condition. The stateful family
has two mutable properties, chains of up to three conditions, and private methods
that write one or both properties, called at top level, in arms and in loops.

Scripts have arguments whose pushes take no, one, two and three bytes of header,
numbers that are opcodes and numbers on both sides of a byte and of the word, the
same argument in two places, and enough code between two separators to let a
spliced index grow by a byte, which moves what is behind it. `ArgsRestoredPlain`
and `RecognizedPlain` are `ArgsRestored` and `Recognized` for contracts without
spliced indices, arguments other than booleans and, for the second, code with no
arguments behind it; the pools `variable`, `boolean` and `unused` show that each
condition is needed. Spliced indices are the subject of `variable_state`.

On the wallet, one client asks for a deployment and a call at once and the other
for what it needs next: their requests overlap, either may take what the other
counted, and the sums stay small. One fault is one of: a request declined, an
answer without transaction, without txid or in error, ARC refusing what it could
accept, an answer lost, a broadcast that fails and is swallowed, a restart. The
overlay is there but does not know the wallet's own transactions, which is the
case in which a funding transaction cannot be rebroadcast.

Fairness. `Compiler` asks `WF_vars(Next)`: a compilation proceeds and a script
ends. `FairSpec` asks that a pending await settles (`WF_vars(Resume(t))`):
providers, signers and the network answer or fail. Nothing obliges the
application to begin anything. `Commits` is checked without faults, where it can
be true. `WalletProvider`'s `FairSpec` asks that each client goes on
(`WF_vars(Continue(c))`: promises settle and the application retries) and that each
request is answered. Nothing is asked of `Notice`: no code of the SDK lets the wallet
know which of its coins were spent (see below). So `ServedOrStuck` does not say that
every client gets its call done; it names all that can keep one from it for ever,
whoever races it for the coins and whatever fails once (`Stuck`): the coins it would
take next hold one that was spent and is still listed, the object tracks an output
that is not there, or a parent is nowhere to be had. Each of the three does happen:
the property fails when any one of them is left out.

### Where code and documentation disagree

* `packages/runar-sdk/README.md:122` says the wrapper "tracks current state and
  UTXO". After a refused broadcast `state` is ahead of the UTXO
  (`contract.ts:1243`), and after a call with `options.outputs` it is behind
  (`contract.ts:1776` moves the UTXO; the branch at 1214 never assigns `_state`).
  `InStep` fails in `seq.cfg` with `Faults = {"reject"}`, and with
  `Splits = {split}` and `InitState = 2`.
* README:273 says the auto-derived state "matches what the on-chain script will
  compute". It does not on a retry: the interpreter starts from the advanced
  `_state`. README:1382 offers omitting `newState` as the fix for a wrong one; the
  wrong one is still in `_state`: `AutoStateMatchesScript` fails in `seq.cfg` with
  `NewStates = {None, 2}`.
* `contract.ts:683` says an explicit pair is connected "temporarily". When two such
  calls overlap, the second saves the first one's pair and restores it last:
  `ConnRestored` fails in `interrupted.cfg` with `Tasks = {t1, t2}`.
* `contract.ts:1406` says that when selection exceeds `maxFundingInputs` "the
  funding can't cover outputs + fee within the budget". Selection never counts
  what the contract input has left over (`fundingTarget` is clamped at 0) and
  over-estimates the unlocking script, so a call that pays for itself is refused: in
  `Funding`, one with 999 satoshis left of its contract input that wants two coins
  under a cap of one. No run.
* Before an operation throws, `_state` has been advanced; deriving from it again
  derives from the wrong state (`contract.ts:1243`, README:1382 as above).
* A local rebound in an arm of an arm leaves the other path with another slot
  order: `05-stack-lower.ts:2679`, "the parent stackMap describes exactly the
  physical stack". Pool `nested_if`.
* `dce.ts:4` promises to keep "bindings with observable side effects";
  `hasSideEffect` (133) does not look into conditionals and loops. Run
  `dead_conditional`.
* An arm calls a private method that writes another property than the other arm does.
  `collectUpdatedProps` (`04-anf-lower.ts:1447`) does not look into the call, against
  1112, "the properties either arm writes", and the continuation commits a state the
  source never has. Pool `helper_in_conditional`, property `Agreement`.
* A flattened chain divides before the condition that guards it
  (`04-anf-lower.ts:2571`, 2683-2700), against spec/semantics.md:250-262. Pool
  `guarded_division`, property `Agreement`.
* The evaluator of `anf-interpreter.ts` keeps properties, parameters and bindings in
  one name space, so an argument overwrites the property of its name (307) and a
  parameter of a private method is copied back into it (1000). In the compiler "a real
  contract property always wins" (`04-anf-lower.ts:1661`). Run `shadowed_property`.
* Strict mode promises to throw on the first false `assert`
  (`anf-interpreter.ts:169`). It is not passed on to private methods (459), and the
  assertion in front of every method of a contract with state is not marked
  (`04-anf-lower.ts:238`) as the last one is (375), while the evaluator has no value
  for the preimage check: strict mode throws on each of these methods. From the
  model's definitions; no run.
* Two locals merged in the reverse of their declaration order do not compile
  (`05-stack-lower.ts:2570`), which docs/language-reference.md:321 allows. Pool
  `reversed`, property `Compiles`.
* `extractConstructorArgs` (`script-utils.ts:163`) counts the widths of constructor
  slots and not of separator indices, though it is said (135) "to locate each
  constructor arg at its byte offset". Run `variable_state`.
* `prepareCall` counts the methods of stateful contracts only (`contract.ts:916`):
  a covenant's second method gets the preimage of the first one's separator,
  against 2172. Pool `covenants`, property `TrimmedWhereExecuted`.
* `classifyEncoded` (`slot-layout.ts:168`) takes a data argument of one byte 0x01..0x10
  or 0x81 for a push with a header of five bytes, though `encodePushData` pushes it by
  one opcode (`contract.ts:2792`): the value's length is -4, and the template hash is
  that of a code with four bytes twice. slot-layout.ts:22: "single-opcode encodings
  have NO push header — the opcode byte IS the value". Run `one_byte`;
  `LayoutRightFramed` is `LayoutRight` without these arguments.
* `buildResolvedCodeHex` is "byte-identical to `RunarContract.getCodePartHex()`"
  (`slot-layout.ts:313`), but appends no arguments where a contract without slots
  gets them behind its code (`contract.ts:1988`).
* `matchesArtifact` (`script-utils.ts:187`) is to recognize a script "regardless of
  what constructor args were used". It does not skip separator indices, so it
  fails on scripts of its own artifact that have one (pool `variable`, property
  `Recognized` of `ContractScript`). Nor does it know that a contract without slots
  and state gets its arguments behind the code (`contract.ts:1988`; pool `unused`).
* A `boolean` argument is read back as a byte string: `interpretScriptElement` knows
  `bool` (`script-utils.ts:102`; pool `boolean`, property `ArgsRestored`).
* packages/runar-sdk/README.md:340: "Make sure the wallet basket has enough funding
  for deploy + a few calls". The SDK spends coins of the basket through ARC and
  never tells the wallet, and its change does not enter the basket: after the first
  call the wallet still lists the spent coin, and `ensureFunding` counts it.
* `ensureFunding` broadcasts a transaction it has parsed again from its bytes
  (`wallet-provider.ts:342`), so the parents that came with it are gone;
  `broadcastTx` throws for want of them unless the overlay has the wallet's own
  transactions, and the failure is swallowed. The coin's transaction is then in
  `txCache` only, and after a restart `ensureFunding` counts a coin that no
  transaction of the SDK can spend (`Stuck` in the model).
* `assembleMultiContractCall` resolves its UTXOs "so every failure happens before
  any signing work" (`multi-contract.ts:143`); an unknown method or a missing
  argument of a later input is found in the loop that signs the earlier ones.
  From reading; no model.
* `TokenWallet.getUtxos` compares scripts with the template before splicing
  (`tokens.ts:202`), which no script with arguments begins with. From reading; no
  model.

The other families of `MCMiscompiled` have no run of their own; set `Pool` to the
name and check the property in brackets.

* `rebound` [Agreement]: a local rebound at top level, then merged beside another;
  `05-stack-lower.ts:2551-2555` says every read "resolves against the layout it was
  generated for".
* `loop_conditional` [Agreement]: a loop that rebinds a local on a condition and
  does not read it; 2730-2735 says such locals "flow through lowerIf's
  branch-reassignment reconciliation".
* `overwritten` [Agreement]: a loop that sets a local before it reads it keeps the
  value of before the loop (385-412), against spec/semantics.md:266-286.
* `shadowed` [Agreement]: a helper called in an arm whose parameter has the name of
  a local of the caller; 2051 says "the caller's scope sees its original entries".
* `helper_temporaries` [Agreement]: the temporaries of a private method are numbered
  from 0 like its caller's, and inlining (`05-stack-lower.ts:2047`) finds the wrong
  one.
* `shadowed_in_conditional` [Agreement]: in an arm, a parameter with the name of a
  property is read as the property; the context of the arm (`05-stack-lower.ts:2204`)
  does not inherit the renaming described at 589-599.
* `read_only_tail` [Agreement]: a stateful method that changes nothing and ends
  without `assert`; docs/language-reference.md:150 says one is injected, and
  `04-anf-lower.ts:315` injects it only when state changes.
* `chain_of_locals` [Agreement]: a flattened chain that writes a local
  (`04-anf-lower.ts:2537`, against 2656-2659).
* `ternary` [Compiles]: `c ? x : y` over two locals (2254-2274), against
  spec/semantics.md:164.
* `postfix` [Agreement]: `x++` has the new value; 2307 says "original value".
* `asserted_twice` [DepthBound]: the depth recorded is one too small
  (`05-stack-lower.ts:1044`), against spec/stack-ir.md:249.
* `short_circuit` [Agreement]: the evaluator skips the right operand of `||`
  (`interpreter.ts:471-488`), the script does not; spec/semantics.md:150 has it
  evaluated.

spec/semantics.md:266 numbers the turns of a loop from 0; the code lets them start
at the loop's initial value and count by its step.

## Proofs

`RunarContractProofs` proves, for any sets of tasks, states, methods, connections
and outpoints and any faults, `TypeCorrect`, `OneShotCorrect`,
`TrackedOnChainCorrect`, `TrackedLiveCorrect` and the action property
`TrackedForwardCorrect`. The assumptions are the ones `RunarContract` states of its
constants: `Effect` maps states to states, options come from the declared sets,
terminal methods are not update or split methods, `None` is none of the values, no
output and no call.

None of these is inductive. That `currentUtxo` moves forward depends on nobody
having spent the new output between the network's acceptance and the answer. The
invariant `IInv` therefore says of an output in flight, one whose broadcast has
not returned, that it is not `Known`: it is unspent, it is not the tracked output,
and neither a prepared call nor a call being prepared can name it (`Unheard`). New
outputs are fresh because everything known exists (`KnownExist`), and an output
becomes known only when its answer arrives. The remaining parts say what each
local holds at each await (`TaskOK`), that prepared calls have a continuation
(`CallOK`), and that an unconsumed prepared call was never sent (`SendOK`).

The argument has three frame lemmas. `TaskKept`: another task's step leaves a
task's locals well-formed, since outputs and prepared calls are only added.
`QuietStep`: a step that neither spends nor moves `currentUtxo`, and makes nothing
known, preserves `IInv`. `Arrival`: the arrival of an answer preserves it. Each
action is then one of these with its type correctness; `Accept`, which spends, is
proved from `Frame` directly.

`SequentialProofs` builds on that invariant for a caller who makes one call at a
time (`OneTask`). `ConnRestoredCorrect` and `OwnConnectionCorrect` hold under any
faults, as long as connect() is not called again: the pair put aside is the one
connect() was given, and the pair in use is the invocation's own (`TaskConn`). The
other three also assume what the run `sequential` does (`PlainUse`): no faults, no
assignment to the state from outside, no split outputs, call() rather than its two
halves, and no `newState`. `Faithful` is the heart of the argument: the call in
hand spends the tracked output and carries the state the script will evaluate, so
its spend is valid (`Spendable`) and no step of it fails (`NothingFails`).
`InStepCorrect` and `AutoStateMatchesScriptCorrect` follow. For
`RefinesAtomicCorrect` it remains that the caller's view of the state is the state
of the tracked output while there is one (`ViewOK`): only `DeployReturn` and
`CallReturn` change what the caller sees, and each is a step of `AtomicContract`
(`DeployHappens`, `CallHappens`); every other step is a stutter (`Unseen`).

`FundingProofs` proves `FundingTypeCorrect`, `BalancedCorrect` and
`FeeCoveredCorrect` for any wallets, operations and rates. `FInv` ties each amount
to the pass it was computed in: the change of a finished call was computed around
the unlocking script of the pass before. That script pushed the change of the
first transaction, which is no smaller because the placeholder is shorter than
any real unlocking script (`UnlockBounds`), and a larger number never encodes
shorter (`NumSizeMonotone`), so the fee charged covers the script finally used.
The allowance of selection covers both when code part and script code are together
at most twice the new script: this is the hypothesis of `FeeCovered`, and the code
knows that it can fail (finding C13 at `contract.ts:1529`); `Balanced` holds
without it.

`WalletProviderProofs` proves `NoStrayCorrect` and `ParentsKeptCorrect` for any
clients, needs, costs and number of faults, with and without an overlay, from the
assumptions of `WalletProvider` (the constants are numbers and `None` is no output). `NoStray` says that an unspent contract output is tracked by its object,
in the object's hands, or accounted for; to be inductive it needs to be known
that transactions are numbered in order (`Numbered`: what is made next is
nobody's yet), that an answer in hand belongs to an output that exists
(`AnswerOK`), that an object whose deployment is under way tracks nothing
(`Undeployed`), and that when ARC has answered, the output tracked before is spent
(`Accepted`). `Kept` is `ParentsKept` stated of one transaction at a time. The
cache only grows but for a restart, so each action either leaves outputs and
answers alone (`Quiet`), adds an output the wallet made (`Made`), or keeps what an
answer says (`Learned`, `Arrives`).

Sums over arbitrary sets of coins are what `MinimumSet`, `DeployFailsOnlyPoor`,
`FundingBounded` and `FundedOnReturn` speak of. `RecursionProofs` proves what they need
of `MapThenSumSet`. No prover here can cite an induction theorem that takes an
operator, but "a set of natural numbers that is not empty has a least element" takes
none (`Least`), and from it follow induction as a statement about sets of numbers
(`NatSetInduction`) and about sets of subsets (`SubsetInduction`). `SumIs` shows that
the recursion by which the sum is defined has a solution whatever element it takes
first; everything else (`SumPick`, `SumAdd`, `SumDisjoint`, `SumSubset`) follows.

The second half of `FundingProofs` proves `MinimumSetCorrect` and `DeployFailsOnlyPoorCorrect`. Its
invariant `MInv` adds to `FInv` that the coins are in descending order, that `total`
is the sum of the coins picked, and that no shorter run of them met its target.
`LargestAreBest` (the first n coins are worth at least any n) turns "no shorter run"
into "no smaller set". `MinimumSet` speaks of sets that are not empty: where nothing
has to be paid, `selectUtxos` still takes a coin before it asks, and the instances
include a deployment at a fee rate of 0 that costs nothing.

`WalletFundingProofs` proves the wallet's `TypeCorrect`, `FundingBoundedCorrect` and
`FundedOnReturnCorrect` for any finite set of clients (`ClientsAssumption`). That the
basket and the requests under way never exceed the clients' needs is inductive once
it is known that a request asks for no more than the client's own need (`Modest`) and
that everything listed belongs to the wallet (`Listed`); a step either leaves both
sums alone, begins a request (`Asks`) or answers one (`Gives`). For `FundedOnReturn`
the coins a client counted before the await are followed: each is still in the basket
or spent (`Countable`), and what was asked for makes up the difference (`Asking`,
`Created`).

`ContractScriptCodec` and `ContractScriptProofs` prove `StateRestoredCorrect`,
`FailsClosedCorrect`, `LayoutRightFramedCorrect`, `RecognizedPlainCorrect` and
`ArgsRestoredPlainCorrect` for any contracts, arguments and
word size. TLA+ functions are
not taken to satisfy their recursion equations: `RankRecursion` shows that a
recursion on a rank has a solution, and each recursive function of the module is
put through it once (`LittleEndianParts`, `ReturnFromSteps`, `ConcatParts`,
`EmitTemplate`, ...); inductions then go by sets of numbers (`UpTo`) and ranks
(`RankInduction`). `ContractScript` is therefore written with recursive functions,
never with recursive operators.

The heart of the first half is `SectionRead`: of a serialized state with anything
behind it, the first m bytes are accepted if and only if m is its length, and then
the same state comes back. It needs the codec of every field (`FieldCoded`,
`WordRestored`, `PushElement`) and that a field cut short is refused
(`FieldTruncated`), wherever the cut is. The heart of the second half is `Clean`: a
search for an `OP_RETURN` that arrives at the first byte of a clean part arrives at
the byte behind it, whatever is around it. Every push is clean, whatever its data
(`CleanPushData`, `NumberType`); so is every opcode that pushes nothing and is no
`OP_RETURN`; clean parts make a clean whole. The emitter's output is clean between
the holes it leaves for values, which are all at different offsets (`Template`,
kept by each operation: `EmitStep`), and a splice that goes through the holes from
the last to the first keeps what is behind a hole clean (`ReplacedAfter`,
`SpliceClean`). The search thus ends at the `OP_RETURN` that `getLockingScript` put
in front of the state (`SectionFound`), or finds none in a script cut off there
(`NoSection`). The inductive invariant `ScriptInv` is then small: what the program
and the object are, what the script is in each phase, and what was loaded from it.

`LayoutRightFramedCorrect` says of the same scripts where their values are. Two lists
of substitutions that differ in the bytes of one hole give codes that differ there
only, at the offset that the expansions in front of the hole make
(`SplicePair`, by the same induction over the holes as `SpliceClean`). With one list
twice it puts each value where `resolveSlotLayout` says (`ValueHeld`): but for a byte
that an opcode pushes, an argument's push is a header of `PushHeaderBytes` bytes and
the value (`ArgSplits`). With a value and its header alone in the other list it says
what one step of `computeTemplateHash` leaves (`ExciseStep`); as the slots are in
increasing order (`Laid`, kept by each operation of the emitter: `LaidStep`), taking
the last value out moves no other, and what remains is the template with a header in
each slot (`ExciseAll`). That the layout determines this (`LayoutDetermines`) is an
induction over the offsets (`LayoutAgrees`): if everything in front of a slot is as
long, a slot's range tells its header, and a separator's index is the same, because it
lies in front of the slot that names it. The arguments compared with are any; that
none of theirs is a byte that an opcode pushes follows, since its range would be of
negative length (`ByOpcodeNegative`).

`RecognizedPlainCorrect` and `ArgsRestoredPlainCorrect` say that the code can be read
back. The spliced code is woven from what the template has between its slots and from
the arguments' pushes (`SpliceWoven`, once more by induction over the holes). Each
push is one element as `readScriptElement` sees it (`ArgElement`), and an element
reads the same wherever it stands (`PassElement`), so that the k-th slot is in the
code where the lengths of the pushes in front of it put it (`SlotStands`).
`matchesArtifact` and `extractConstructorArgs` then step from slot to slot in the same
way: the first finds the template between them (`WovenMatches`), the second
accumulates the shift that every slot adds, a parameter's second slot too
(`WovenReads`), and takes the value of a parameter from its first. That the value is
the one pushed (`ArgRead`) needs the inverse of `encodeScriptNumber` for numbers of any
size: the magnitude's bytes are read back (`DigitsRead`), with or without the byte that
is put behind it for the sign (`SignedRead`).

What these theorems assume of the constants is `ProgramsAssumption`, which TLC
evaluates on every run: a contract's opcodes push no data and are no `OP_RETURN`
(the emitter writes pushes by `encodePushValue`, and the compiler knows no
`OP_RETURN`: `06-emit.ts`), pushes and arguments are no longer than a string of
the language can be (2^31 - 1, where the code's `<<` would turn negative too), the
values an application gives have the types it declares, an `Addr` has 20 bytes, and
a field has an initial value or a parameter of its name; and that a separator's
index is a number of that size. `WordAssumption` says that a word has a byte;
`NumberAssumption`, that `NumberBytes` is a number.

## Not modelled

Of the compiler: the nine parsers, validation and type checking, byte strings and
arrays in contracts, explicit outputs (`addOutput` and its kin), state of variable
length (whose script side is in `ContractScript`), source maps; the cryptographic
code generators (hundreds of bits of unrolled arithmetic) beyond the curve's
algebra. The six ports, the fuzzer, the path analyzer, code generation, the command
line, the decompiler and the Lean development.

Of the SDK: the HTTP providers, which keep no state, and the mock, which is test
tooling. `TokenWallet` and `assembleMultiContractCall`: the first finds no tokens
(see above), so nothing it would do next is reachable; the second has no state and
no await between a read of shared state and its use, and a model in which hashes
are ideal would make its signatures right by construction. The witness setters,
`withInscription`, and `fromTxId`, which is a fetch before `fromUtxo`. Of coin
selection: stateless calls, arguments that grow with the number of inputs
(`allPrevouts`). Of scripts: fixed-size array fields, the other fixed widths of the
state table, raw script spans, the checks against a corrupted artifact, and push
lengths of 2^31 and more, which `findLastOpReturn` reads as negative
(`state.ts:292`) and no script of the SDK contains.

Model-checked only: the properties of the compiler, whose modules recurse over trees
by recursive operators, which TLAPS cannot handle; of `ContractScript`, what holds of
the contracts in the instance and not of all: `TrimmedWhereExecuted`, which fails for
the second method of a covenant (see the findings), and `IndicesPushed`, which reads an
index of at most `NumberBytes` bytes back and holds only where a separator stands in
front of every index; and the liveness properties `Commits` and `ServedOrStuck`.

## Plan

1. Explicit outputs and byte strings in the compiler's language, which bring state
   of variable length into `Compiler` and join it to `ContractScript`.
2. Two objects attached to one output: a second client in `RunarContract` whose
   object is loaded by `fromUtxo`.
3. The type checker's affine rules (`03-typecheck.ts`), which say which programs
   pass 4 ever sees.

Theorems planned: that `Balanced` and `FeeCovered` carry over to stateless calls,
once coin selection has them.
