----------------------------- MODULE MCPricing -----------------------------
EXTENDS Pricing

\* An established player, a thin one, a newcomer, one long idle, an unknown name.
Known(n, idle) == [resolved |-> TRUE, n |-> n, idle |-> idle]
SampleHistories == {Known(50, 365), Known(49, 30), Known(19, 30), Known(50, 366),
                    [resolved |-> FALSE, n |-> 0, idle |-> 0]}

SampleStakes == {Nil, 20}

\* The cents of these prices and asks whose nearest double is above the decimal.
Doubles == {20, 45, 55, 80}

\* The other market: empty, one-sided, close to even, wide, in favour of either player.
Book(yes, no) == [s \in Sides |-> [x \in Prices |->
                   IF x \in (IF s = "yes" THEN yes ELSE no) THEN MaxSize ELSE 0]]
OtherBooks == {Book({}, {}), Book({50}, {}), Book({45}, {50}), Book({15}, {45}),
               Book({15}, {80}), Book({80}, {15})}
=============================================================================
