SPECIFICATION RetrySpec
CONSTANTS
    Request = {r1, r2}
    Classifier = {c1}
    v1 = v1
    v2 = v2
    v3 = v3
    low = low
    high = high
    Version = {v1, v2}
    Threshold = {low}
    Upload <- OneFile
    MaxExamples = 0
    Kinds = {"import", "copy", "promote", "materialize"}
    None = None
    persistent = r1
PROPERTIES
    WholeWhenReported
    PromotionRepaired
    ImportCompleted
