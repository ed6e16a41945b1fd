CONSTANTS
    Parts = {"tree"}
    Plans <- RangePlan
SPECIFICATION Spec
INVARIANT ScansStayInRange
